---- MODULE Spec2Model ----
(***************************************************************************)
(* A model of simple-queue's Queue<T> (src/src/queue/Queue.ts): the item   *)
(* mapping, the in-flight ("processing") set, the options fixed by the     *)
(* constructor, the registered processors and the processNext invocations  *)
(* that are suspended on a processor.                                      *)
(*                                                                         *)
(* The item mapping is a JavaScript Map: it iterates in insertion order,   *)
(* so it is modelled as a sequence of item records.  Array.prototype.sort  *)
(* is stable, so it is modelled by a stable insertion sort driven by the   *)
(* comparator the code passes.  uuidv4() is modelled by a counter: ids are *)
(* fresh and, in the model only, the id of an item is also its enqueue     *)
(* sequence number.  new Date() is modelled by a clock that never goes     *)
(* backwards and may return the same instant to consecutive reads.         *)
(***************************************************************************)
EXTENDS Integers, Sequences, FiniteSets

VARIABLES
  items,        \* this.items: the Map, as the sequence of its values in insertion order
  processing,   \* this.processing: the set of in-flight ids
  options,      \* this.options: [maxSize, retryLimit, priorityEnabled]
  processors,   \* this.processors: the registered processors, in registration order
  calls,        \* the processNext invocations suspended at "await processor(item)"
  clock,        \* the last instant new Date() returned
  nextId,       \* the next id uuidv4() hands out
  retryCalls,   \* history: per id, the retry calls made on it while it was in-flight
  handed,       \* history: per id, how many times dequeue handed the item out
  storageAdapter, \* this.storageAdapter is set (a FileStorageAdapter)
  file,         \* what is at the adapter's filePath on disk
  writes,       \* the fs.writeFile operations under way, oldest first
  loading,      \* the loadFromStorage call under way, if any
  unhandled,    \* a promise was rejected with no handler attached
  storageDir,   \* QueueManager.storageDir is set
  queues,       \* QueueManager.queues: the Map, as its [name, queue] entries in insertion order
  heap,         \* the Queue objects createQueue made, in the order it made them
  latest,       \* history: per name, the queue the last successful createQueue returned;
                \* negated once the name is removed, 0 when it never was created
  saveAll,      \* the saveAllQueues call under way or last made
  subscribers,  \* QueueNotificationService.subscribers: per queue name, the entries kept
  wrappers      \* the queueSubscriber objects subscribeToQueue made, in the order it made them

vars == <<items, processing, options, processors, calls, clock, nextId, retryCalls, handed,
          storageAdapter, file, writes, loading, unhandled,
          storageDir, queues, heap, latest, saveAll, subscribers, wrappers>>

serviceVars == <<subscribers, wrappers>>

\* the manager and the notification service built on it
managerVars == <<storageDir, queues, heap, latest, saveAll, serviceVars>>

storageVars == <<storageAdapter, file, writes, loading, unhandled>>

(***************************************************************************)
(* Bounds of the model.                                                    *)
(***************************************************************************)
MaxIds == 2          \* enqueues that succeed over a run
MaxTime == 1         \* the clock runs over 0..MaxTime
MaxPriority == 1     \* priorities passed to enqueue: 0..MaxPriority
MaxSizeOpt == 2      \* constructor option maxSize: 1..MaxSizeOpt
MaxRetryOpt == 2     \* constructor option retryLimit: 1..MaxRetryOpt
MaxProcessors == 1   \* processors registered over a run
MaxCalls == 1        \* processNext invocations suspended at the same time
MaxCount == 3        \* the count passed to dequeueMany, the limit passed to browse
MaxBatch == 1        \* the length of the id list passed to completeMany / retryMany
MaxList == 2         \* the same length where only the batch methods are run
MaxWrites == 2       \* fs.writeFile operations under way at the same time
MaxQueues == 2       \* Queue objects createQueue makes over a run
MaxHeld == 1         \* the maxSize option createQueue is passed
MaxAdds == 2         \* enqueues that succeed on one managed queue over a run
MaxBatchSize == 2    \* the batchSize option createQueue is passed
MaxWrappers == 2     \* subscriptions made through the notification service over a run

(***************************************************************************)
(* Program constants.                                                      *)
(***************************************************************************)
DefaultMaxSize == 1000
DefaultRetryLimit == 3

Data == {"a"}                 \* payloads: the queue stores them and never reads them
Priorities == 0..MaxPriority
Ids == 1..MaxIds
AnyId == 1..(MaxIds + 1)      \* MaxIds + 1 is an id no enqueue ever returned
Outcomes == {"true", "false", "throw"}

RECURSIVE SeqsUpTo(_, _)
SeqsUpTo(S, n) ==
  IF n = 0 THEN {<<>>}
  ELSE LET shorter == SeqsUpTo(S, n - 1)
       IN shorter \cup {Append(s, x) : s \in {t \in shorter : Len(t) = n - 1}, x \in S}

Range(s) == {s[i] : i \in 1..Len(s)}
IdsOf(its) == {its[i].id : i \in 1..Len(its)}
Min(a, b) == IF a < b THEN a ELSE b

\* Map.get(id) on a key that is present
Get(its, id) == its[CHOOSE i \in 1..Len(its) : its[i].id = id]

\* Map.delete(id): the other entries keep their order
Delete(its, id) == SelectSeq(its, LAMBDA it : it.id # id)

\* Array.prototype.filter(item => !this.processing.has(item.id))
availableItems(its, proc) == SelectSeq(its, LAMBDA it : it.id \notin proc)

(***************************************************************************)
(* Queue.ts, the methods as functions of the queue state                   *)
(* q = [items, processing] and of the options.                             *)
(***************************************************************************)

\* constructor: options.maxSize || 1000, options.retryLimit || 3,
\* options.priorityEnabled || false.  "||" takes the default for 0 as for undefined.
QueueOptionsOf(maxSize, retryLimit, priorityEnabled) ==
  [maxSize         |-> IF maxSize # 0 THEN maxSize ELSE DefaultMaxSize,
   retryLimit      |-> IF retryLimit # 0 THEN retryLimit ELSE DefaultRetryLimit,
   priorityEnabled |-> priorityEnabled]

Q(its, proc) == [items |-> its, processing |-> proc]

size(q) == Len(q.items)

\* a wrong enqueueItem: the priority is stored whatever priorityEnabled says
enqueueItemKeepsPriority(opts, id, data, priority, t) ==
  [id |-> id, data |-> data, addedAt |-> t, priority |-> priority,
   processingAttempts |-> 0]

\* enqueue: the item stored under the fresh id
enqueueItem(opts, id, data, priority, t) ==
  [id |-> id,
   data |-> data,
   addedAt |-> t,
   priority |-> IF opts.priorityEnabled THEN priority ELSE 0,
   processingAttempts |-> 0]

\* a wrong enqueue: the capacity test with > for >=
enqueueAbove(q, opts, id, data, priority, t) ==
  IF size(q) > opts.maxSize THEN [q |-> q, ok |-> FALSE]
  ELSE [q |-> Q(Append(q.items, enqueueItem(opts, id, data, priority, t)),
                q.processing),
        ok |-> TRUE]

\* enqueue; ok = FALSE stands for the throw of 'Queue is full'
enqueue(q, opts, id, data, priority, t) ==
  IF size(q) >= opts.maxSize THEN [q |-> q, ok |-> FALSE]
  ELSE [q |-> Q(Append(q.items, enqueueItem(opts, id, data, priority, t)),
                q.processing),
        ok |-> TRUE]

\* a wrong dequeueCompare: the priority comparison the wrong way round
dequeueCompareLowestFirst(opts, a, b) ==
  IF opts.priorityEnabled
  THEN IF b.priority # a.priority THEN a.priority - b.priority
       ELSE a.addedAt - b.addedAt
  ELSE a.addedAt - b.addedAt

\* the comparator dequeue sorts with: by priority, highest first, then by addedAt
\* when priorityEnabled; by addedAt alone otherwise
dequeueCompare(opts, a, b) ==
  IF opts.priorityEnabled
  THEN IF b.priority # a.priority THEN b.priority - a.priority
       ELSE a.addedAt - b.addedAt
  ELSE a.addedAt - b.addedAt

\* the comparator peek sorts with: dequeue's, written out a second time
peekCompare(opts, a, b) ==
  IF opts.priorityEnabled
  THEN IF b.priority # a.priority THEN b.priority - a.priority
       ELSE a.addedAt - b.addedAt
  ELSE a.addedAt - b.addedAt

\* a wrong browseCompare: in-flight items before pending ones
browseCompareInFlightFirst(q, opts, a, b) ==
  LET aProcessing == IF a.id \in q.processing THEN 1 ELSE 0
      bProcessing == IF b.id \in q.processing THEN 1 ELSE 0
  IN IF aProcessing # bProcessing THEN bProcessing - aProcessing
     ELSE IF opts.priorityEnabled /\ a.priority # b.priority
          THEN b.priority - a.priority
          ELSE a.addedAt - b.addedAt

\* the comparator browse sorts with: pending before in-flight, then by priority
\* when priorityEnabled, then by addedAt
browseCompare(q, opts, a, b) ==
  LET aProcessing == IF a.id \in q.processing THEN 1 ELSE 0
      bProcessing == IF b.id \in q.processing THEN 1 ELSE 0
  IN IF aProcessing # bProcessing THEN aProcessing - bProcessing
     ELSE IF opts.priorityEnabled /\ a.priority # b.priority
          THEN b.priority - a.priority
          ELSE a.addedAt - b.addedAt

\* the comparator of the method `site`
compare(site, q, opts, a, b) ==
  CASE site = "dequeue" -> dequeueCompare(opts, a, b)
    [] site = "peek"    -> peekCompare(opts, a, b)
    [] site = "browse"  -> browseCompare(q, opts, a, b)

\* Array.prototype.sort(cmp): stable; cmp(a, b) < 0 puts a before b
Insert(t, x, site, q, opts) ==
  LET before == {i \in 1..Len(t) : compare(site, q, opts, x, t[i]) < 0}
      k == IF before = {} THEN Len(t) + 1
           ELSE CHOOSE i \in before : \A j \in before : i <= j
  IN SubSeq(t, 1, k - 1) \o <<x>> \o SubSeq(t, k, Len(t))

StableSort(s, site, q, opts) ==
  LET sorted[n \in 0..Len(s)] ==
        IF n = 0 THEN <<>> ELSE Insert(sorted[n - 1], s[n], site, q, opts)
  IN sorted[Len(s)]

\* dequeue, up to "Mark as processing": <<nextItem>>, or <<>> for null
nextItem(q, opts) ==
  IF size(q) = 0 THEN <<>>
  ELSE LET available == availableItems(q.items, q.processing)
       IN IF Len(available) = 0 THEN <<>>
          ELSE <<StableSort(available, "dequeue", q, opts)[1]>>

\* a wrong dequeue: the item is taken out of the mapping, not marked in-flight
dequeueRemoves(q, opts) ==
  LET next == nextItem(q, opts)
  IN [q |-> IF next = <<>> THEN q
            ELSE Q(Delete(q.items, next[1].id), q.processing),
      out |-> next]

\* a wrong dequeue: the item is handed out without being marked in-flight
dequeueUnmarked(q, opts) == [q |-> q, out |-> nextItem(q, opts)]

\* a wrong dequeue: handing an item out counts as an attempt
dequeueCountsAttempt(q, opts) ==
  LET next == nextItem(q, opts)
  IN [q |-> IF next = <<>> THEN q
            ELSE Q([i \in 1..Len(q.items) |->
                      IF q.items[i].id = next[1].id
                      THEN [q.items[i] EXCEPT !.processingAttempts = @ + 1]
                      ELSE q.items[i]],
                   q.processing \cup {next[1].id}),
      out |-> next]

dequeue(q, opts) ==
  LET next == nextItem(q, opts)
  IN [q |-> IF next = <<>> THEN q
            ELSE Q(q.items, q.processing \cup {next[1].id}),
      out |-> next]

\* a wrong complete: the id stays in the in-flight set
completeLeavesInFlight(q, id) ==
  IF id \notin q.processing
  THEN [q |-> q, ok |-> FALSE]
  ELSE [q |-> Q(Delete(q.items, id), q.processing), ok |-> TRUE]

\* a wrong complete: the test is on the mapping, not on the in-flight set
completeAnyPresent(q, id) ==
  IF id \notin IdsOf(q.items)
  THEN [q |-> q, ok |-> FALSE]
  ELSE [q |-> Q(Delete(q.items, id), q.processing \ {id}), ok |-> TRUE]

complete(q, id) ==
  IF id \notin q.processing
  THEN [q |-> q, ok |-> FALSE]
  ELSE [q |-> Q(Delete(q.items, id), q.processing \ {id}), ok |-> TRUE]

\* a wrong retry: a retried item is not released from the in-flight set
retryKeepsInFlight(q, opts, id) ==
  IF id \notin q.processing THEN [q |-> q, ok |-> FALSE]
  ELSE IF id \notin IdsOf(q.items) THEN [q |-> q, ok |-> FALSE]
  ELSE LET item == Get(q.items, id)
       IN IF item.processingAttempts >= opts.retryLimit
          THEN [q |-> Q(Delete(q.items, id), q.processing \ {id}), ok |-> FALSE]
          ELSE [q |-> Q([i \in 1..Len(q.items) |->
                           IF q.items[i].id = id
                           THEN [q.items[i] EXCEPT !.processingAttempts = @ + 1]
                           ELSE q.items[i]],
                        q.processing),
                ok |-> TRUE]

\* a wrong retry: the limit test with > for >=
retryOneTooMany(q, opts, id) ==
  IF id \notin q.processing THEN [q |-> q, ok |-> FALSE]
  ELSE IF id \notin IdsOf(q.items) THEN [q |-> q, ok |-> FALSE]
  ELSE LET item == Get(q.items, id)
       IN IF item.processingAttempts > opts.retryLimit
          THEN [q |-> Q(Delete(q.items, id), q.processing \ {id}), ok |-> FALSE]
          ELSE [q |-> Q([i \in 1..Len(q.items) |->
                           IF q.items[i].id = id
                           THEN [q.items[i] EXCEPT !.processingAttempts = @ + 1]
                           ELSE q.items[i]],
                        q.processing \ {id}),
                ok |-> TRUE]

\* a wrong retry: the retried item is taken out of the Map and set again, at its end
retryRequeues(q, opts, id) ==
  IF id \notin q.processing THEN [q |-> q, ok |-> FALSE]
  ELSE IF id \notin IdsOf(q.items) THEN [q |-> q, ok |-> FALSE]
  ELSE LET item == Get(q.items, id)
       IN IF item.processingAttempts >= opts.retryLimit
          THEN [q |-> Q(Delete(q.items, id), q.processing \ {id}), ok |-> FALSE]
          ELSE [q |-> Q(Append(Delete(q.items, id),
                               [item EXCEPT !.processingAttempts = @ + 1]),
                        q.processing \ {id}),
                ok |-> TRUE]

retry(q, opts, id) ==
  IF id \notin q.processing THEN [q |-> q, ok |-> FALSE]
  ELSE IF id \notin IdsOf(q.items) THEN [q |-> q, ok |-> FALSE]
  ELSE LET item == Get(q.items, id)
       IN IF item.processingAttempts >= opts.retryLimit
          THEN [q |-> Q(Delete(q.items, id), q.processing \ {id}), ok |-> FALSE]
          ELSE [q |-> Q([i \in 1..Len(q.items) |->
                           IF q.items[i].id = id
                           THEN [q.items[i] EXCEPT !.processingAttempts = @ + 1]
                           ELSE q.items[i]],
                        q.processing \ {id}),
                ok |-> TRUE]

clear(q) == Q(<<>>, {})

\* a wrong peek: the in-flight items are not filtered out
peekIgnoresProcessing(q, opts) ==
  [q |-> q,
   out |-> IF size(q) = 0 THEN <<>>
           ELSE <<StableSort(q.items, "peek", q, opts)[1]>>]

\* peek: the selection of dequeue, written out a second time in the source; no
\* field of the queue is assigned
peek(q, opts) ==
  [q |-> q,
   out |-> IF size(q) = 0 THEN <<>>
           ELSE LET available == availableItems(q.items, q.processing)
                IN IF Len(available) = 0 THEN <<>>
                   ELSE <<StableSort(available, "peek", q, opts)[1]>>]

\* browse: sort every item, then slice(0, limit)
browse(q, opts, limit) ==
  LET sorted == StableSort(q.items, "browse", q, opts)
  IN SubSeq(sorted, 1, Min(limit, Len(sorted)))

\* dequeueMany: for (i = 0; i < count; i++) { dequeue(); break on null; push }
RECURSIVE dequeueManyLoop(_, _, _, _, _)
dequeueManyLoop(q, opts, i, count, results) ==
  IF ~(i < count) THEN [q |-> q, out |-> results]
  ELSE LET d == dequeue(q, opts)
       IN IF d.out = <<>> THEN [q |-> q, out |-> results]
          ELSE dequeueManyLoop(d.q, opts, i + 1, count, results \o d.out)

\* a wrong dequeueMany: the loop runs once too often (i <= count)
dequeueManyOneMore(q, opts, count) == dequeueManyLoop(q, opts, 0, count + 1, <<>>)

dequeueMany(q, opts, count) == dequeueManyLoop(q, opts, 0, count, <<>>)

\* completeMany: for (const id of ids) complete(id) ? succeeded++ : failed++
RECURSIVE completeManyLoop(_, _, _, _)
completeManyLoop(q, ids, succeeded, failed) ==
  IF ids = <<>> THEN [q |-> q, succeeded |-> succeeded, failed |-> failed]
  ELSE LET c == complete(q, Head(ids))
       IN IF c.ok THEN completeManyLoop(c.q, Tail(ids), succeeded + 1, failed)
          ELSE completeManyLoop(c.q, Tail(ids), succeeded, failed + 1)

\* a wrong completeMany: the loop gives up at the first id that fails
RECURSIVE completeManyStops(_, _)
completeManyStops(q, ids) ==
  IF ids = <<>> THEN [q |-> q, succeeded |-> 0, failed |-> 0]
  ELSE LET c == complete(q, Head(ids))
       IN IF ~c.ok THEN [q |-> q, succeeded |-> 0, failed |-> Len(ids)]
          ELSE LET rest == completeManyStops(c.q, Tail(ids))
               IN [rest EXCEPT !.succeeded = @ + 1]

completeMany(q, ids) == completeManyLoop(q, ids, 0, 0)

\* retryMany: for (const id of ids) retry(id) ? succeeded++ : failed++
RECURSIVE retryManyLoop(_, _, _, _, _)
retryManyLoop(q, opts, ids, succeeded, failed) ==
  IF ids = <<>> THEN [q |-> q, succeeded |-> succeeded, failed |-> failed]
  ELSE LET r == retry(q, opts, Head(ids))
       IN IF r.ok THEN retryManyLoop(r.q, opts, Tail(ids), succeeded + 1, failed)
          ELSE retryManyLoop(r.q, opts, Tail(ids), succeeded, failed + 1)

retryMany(q, opts, ids) == retryManyLoop(q, opts, ids, 0, 0)

(***************************************************************************)
(* Storage (src/src/queue/storage.ts).  The content of the snapshot file   *)
(* is a record: state says whether the file is missing ("absent"), has     *)
(* length zero ("empty"), holds text JSON.parse rejects ("garbage") or     *)
(* holds a JSON object ("json"); for a JSON object, hasItems and           *)
(* hasProcessing say which of its two properties are there, and items and  *)
(* processing are their values.  A JSON value is modelled by what          *)
(* JSON.stringify writes and JSON.parse reads back: a Date is written as   *)
(* its ISO string and read back as that string.                            *)
(***************************************************************************)
\* a payload that holds a Date object, as the command handler enqueues for a task
\* ({ name, params: { createdAt: new Date() } })
DatePayload == "Date(0)"
Payloads == Data \cup {DatePayload}

\* JSON.stringify then JSON.parse of a payload: Date.prototype.toJSON gives the
\* ISO string, which parses as a string; a string is read back as it was
toJSON(data) == IF data = DatePayload THEN "1970-01-01T00:00:00.000Z" ELSE data

\* an item as JSON.stringify writes it: addedAt is the ISO string of the instant
stringifyItem(item) ==
  [id |-> item.id,
   data |-> toJSON(item.data),
   addedAt |-> [iso |-> item.addedAt],
   priority |-> item.priority,
   processingAttempts |-> item.processingAttempts]

FileOf(state, hasItems, hasProcessing, its, proc) ==
  [state |-> state, hasItems |-> hasItems, hasProcessing |-> hasProcessing,
   items |-> its, processing |-> proc]

Absent == FileOf("absent", FALSE, FALSE, <<>>, <<>>)
Truncated == FileOf("empty", FALSE, FALSE, <<>>, <<>>)
Garbage == FileOf("garbage", FALSE, FALSE, <<>>, <<>>)

\* Array.from(processing.values()): the model keeps the in-flight ids as a set, so
\* the list is written in ascending order; load makes a Set of it again
ValuesOf(S) ==
  CHOOSE s \in [1..Cardinality(S) -> S] :
    /\ Range(s) = S
    /\ \A i, j \in 1..Cardinality(S) : i < j => s[i] < s[j]

\* save: the text JSON.stringify(data) hands to fs.writeFile
save(q) ==
  FileOf("json", TRUE, TRUE,
         [i \in 1..Len(q.items) |->
            [key |-> q.items[i].id, value |-> stringifyItem(q.items[i])]],
         ValuesOf(q.processing))

Rejected == [ok |-> FALSE, items |-> <<>>, processing |-> {}]

\* a wrong load: the in-flight list of the snapshot is not read back
loadForgetsInFlight(f) ==
  IF f.state = "absent" THEN [ok |-> TRUE, items |-> <<>>, processing |-> {}]
  ELSE IF f.state # "json" THEN Rejected
  ELSE IF ~f.hasItems THEN Rejected
  ELSE [ok |-> TRUE,
        items |-> [i \in 1..Len(f.items) |->
                     [id |-> f.items[i].value.id,
                      data |-> f.items[i].value.data,
                      addedAt |-> f.items[i].value.addedAt.iso,
                      priority |-> f.items[i].value.priority,
                      processingAttempts |-> f.items[i].value.processingAttempts]],
        processing |-> {}]

\* load: no file gives the empty state; JSON.parse throws on an empty file and on
\* text that is not JSON; parsed.items.map throws when items is missing; new
\* Set(undefined) is the empty set.  ok = FALSE is the promise rejected
load(f) ==
  IF f.state = "absent" THEN [ok |-> TRUE, items |-> <<>>, processing |-> {}]
  ELSE IF f.state # "json" THEN Rejected
  ELSE IF ~f.hasItems THEN Rejected
  ELSE [ok |-> TRUE,
        items |-> [i \in 1..Len(f.items) |->
                     [id |-> f.items[i].value.id,
                      data |-> f.items[i].value.data,
                      addedAt |-> f.items[i].value.addedAt.iso,
                      priority |-> f.items[i].value.priority,
                      processingAttempts |-> f.items[i].value.processingAttempts]],
        processing |-> IF f.hasProcessing THEN Range(f.processing) ELSE {}]

\* the states autoSave snapshots over a call of complete / retry / the batch methods
completeSaves(q, id) == IF complete(q, id).ok THEN <<complete(q, id).q>> ELSE <<>>

retrySaves(q, opts, id) ==
  IF id \in q.processing /\ id \in IdsOf(q.items) THEN <<retry(q, opts, id).q>> ELSE <<>>

RECURSIVE completeManySaves(_, _)
completeManySaves(q, ids) ==
  IF ids = <<>> THEN <<>>
  ELSE completeSaves(q, Head(ids)) \o completeManySaves(complete(q, Head(ids)).q, Tail(ids))

RECURSIVE retryManySaves(_, _, _)
retryManySaves(q, opts, ids) ==
  IF ids = <<>> THEN <<>>
  ELSE retrySaves(q, opts, Head(ids))
         \o retryManySaves(retry(q, opts, Head(ids)).q, opts, Tail(ids))

(***************************************************************************)
(* The state machine: one action per public method of Queue, and one for   *)
(* a processor settling the promise a processNext invocation awaits.  What *)
(* a method returns is not state: the claims read it off the method's      *)
(* operator in the state the call is made in.                              *)
(***************************************************************************)
q == Q(items, processing)

NoCall == [item |-> 0, idx |-> 0]
\* one slot more than MaxCalls, for the specification that lets one more invocation in
Slots == 1..(MaxCalls + 1)
FreeSlots == {c \in Slots : calls[c] = NoCall}
LowestFree == CHOOSE c \in FreeSlots : \A d \in FreeSlots : c <= d

\* A method returns the item objects the Map holds, not copies: a list of returned
\* items is compared by reference, as the list of their ids.
Refs(its) == [i \in 1..Len(its) |-> its[i].id]

\* retryCalls after a step that called retry on the in-flight ids S and left its
Counted(S, its) ==
  [i \in Ids |-> IF i \notin IdsOf(its) THEN 0
                 ELSE IF i \in S THEN retryCalls[i] + 1
                 ELSE retryCalls[i]]

\* the ids of `ids` a retry call acts on: in-flight and in the mapping
Retried(ids) == ids \cap processing \cap IdsOf(items)

\* handed after a step that left nq having called retry on the ids retried: the
\* step's dequeue handed out the ids that are new in the in-flight set, and those
\* it retried that were not in flight before
HandedOut(nq, retried) ==
  [i \in Ids |-> IF i \notin IdsOf(nq.items) THEN 0
                 ELSE IF i \in (nq.processing \cup retried) \ processing THEN handed[i] + 1
                 ELSE handed[i]]

SetQueue(nq, retried) ==
  /\ items' = nq.items
  /\ processing' = nq.processing
  /\ retryCalls' = Counted(retried, nq.items)
  /\ handed' = HandedOut(nq, retried)

\* autoSave after each of the states in snaps was reached: without an adapter it
\* does nothing; with one, save runs down to fs.writeFile before the call goes
\* on, so each write carries the snapshot of the state at that moment.  Nothing
\* awaits the promise autoSave returns
AutoSave(snaps) ==
  IF storageAdapter
  THEN /\ Len(writes) + Len(snaps) <= MaxWrites
       /\ writes' = writes \o [i \in 1..Len(snaps) |-> [data |-> save(snaps[i]), open |-> FALSE]]
       /\ UNCHANGED <<storageAdapter, file, loading, unhandled>>
  ELSE UNCHANGED storageVars

\* new Queue(options): empty mapping, empty in-flight set, no processor
ConstructedWith(maxSize, retryLimit, priorityEnabled) ==
  /\ items = <<>>
  /\ processing = {}
  /\ options = QueueOptionsOf(maxSize, retryLimit, priorityEnabled)
  /\ processors = <<>>
  /\ calls = [c \in Slots |-> NoCall]
  /\ clock = 0
  /\ nextId = 1
  /\ retryCalls = [i \in Ids |-> 0]
  /\ handed = [i \in Ids |-> 0]
  /\ writes = <<>>
  /\ loading = "idle"
  /\ unhandled = FALSE

\* the queues the other specifications start from: every positive maxSize and
\* retryLimit up to the bounds, priorities on and off
Constructed ==
  \E m \in 1..MaxSizeOpt, r \in 1..MaxRetryOpt, p \in BOOLEAN : ConstructedWith(m, r, p)

\* no call of setStorageAdapter: this.storageAdapter stays undefined
NoAdapter == storageAdapter = FALSE /\ file = Absent

\* the names queues are created under
QueueNames == {"tasks", "orders"}

\* no saveAllQueues call was made
NotSaving == [state |-> "idle", started |-> {}, writing |-> {}]

\* new QueueManager(storageDir) with dir telling whether storageDir is given
ManagerConstructed(dir) ==
  /\ storageDir = dir
  /\ queues = <<>>
  /\ heap = <<>>
  /\ latest = [n \in QueueNames |-> 0]
  /\ saveAll = NotSaving
  /\ subscribers = [n \in QueueNames |-> {}]
  /\ wrappers = <<>>

\* the queue is used on its own
NoManager == ManagerConstructed(FALSE)

\* setStorageAdapter(new FileStorageAdapter(path)) with f at the path
AdapterOn(f) == storageAdapter = TRUE /\ file = f

\* enqueue(data, priority) at instant t: uuidv4() returns nextId, new Date() returns t
Enqueue(data, priority, t) ==
  LET e == enqueue(q, options, nextId, data, priority, t)
  IN IF ~e.ok
     THEN UNCHANGED vars
     ELSE /\ nextId <= MaxIds
          /\ SetQueue(e.q, {})
          /\ AutoSave(<<e.q>>)
          /\ clock' = t
          /\ nextId' = nextId + 1
          /\ UNCHANGED <<options, processors, calls>>
          /\ UNCHANGED managerVars

Dequeue ==
  /\ SetQueue(dequeue(q, options).q, {})
  /\ UNCHANGED <<options, processors, calls, clock, nextId>>
  /\ UNCHANGED storageVars
  /\ UNCHANGED managerVars

Complete(id) ==
  /\ SetQueue(complete(q, id).q, {})
  /\ AutoSave(completeSaves(q, id))
  /\ UNCHANGED <<options, processors, calls, clock, nextId>>
  /\ UNCHANGED managerVars

Retry(id) ==
  /\ SetQueue(retry(q, options, id).q, Retried({id}))
  /\ AutoSave(retrySaves(q, options, id))
  /\ UNCHANGED <<options, processors, calls, clock, nextId>>
  /\ UNCHANGED managerVars

Clear ==
  /\ SetQueue(clear(q), {})
  /\ AutoSave(<<clear(q)>>)
  /\ UNCHANGED <<options, processors, calls, clock, nextId>>
  /\ UNCHANGED managerVars

Peek ==
  /\ SetQueue(peek(q, options).q, {})
  /\ UNCHANGED <<options, processors, calls, clock, nextId>>
  /\ UNCHANGED storageVars
  /\ UNCHANGED managerVars

\* browse(limit) returns browse(q, options, limit): it sorts a copy of the Map's
\* values and assigns nothing
Browse(limit) == UNCHANGED vars

DequeueMany(count) ==
  /\ SetQueue(dequeueMany(q, options, count).q, {})
  /\ UNCHANGED <<options, processors, calls, clock, nextId>>
  /\ UNCHANGED storageVars
  /\ UNCHANGED managerVars

CompleteMany(ids) ==
  /\ SetQueue(completeMany(q, ids).q, {})
  /\ AutoSave(completeManySaves(q, ids))
  /\ UNCHANGED <<options, processors, calls, clock, nextId>>
  /\ UNCHANGED managerVars

RetryMany(ids) ==
  /\ SetQueue(retryMany(q, options, ids).q, Retried(Range(ids)))
  /\ AutoSave(retryManySaves(q, options, ids))
  /\ UNCHANGED <<options, processors, calls, clock, nextId>>
  /\ UNCHANGED managerVars

RegisterProcessorUpTo(n) ==
  /\ Len(processors) < n
  /\ processors' = Append(processors, Len(processors) + 1)
  /\ UNCHANGED <<items, processing, options, calls, clock, nextId, retryCalls, handed>>
  /\ UNCHANGED storageVars
  /\ UNCHANGED managerVars

RegisterProcessor == RegisterProcessorUpTo(MaxProcessors)

\* a wrong processNextBegin: with no processor registered the call returns false
\* and leaves the item it dequeued in flight
processNextBeginLeaves(q0, opts, procs) ==
  LET d == dequeue(q0, opts)
  IN IF d.out = <<>>
     THEN [q |-> q0, call |-> NoCall, ret |-> "false"]
     ELSE IF Len(procs) = 0
     THEN [q |-> d.q, call |-> NoCall, ret |-> "false"]
     ELSE [q |-> d.q, call |-> [item |-> d.out[1].id, idx |-> 1], ret |-> "await"]

\* processNext up to its first await: dequeue, return false on null; with no
\* processor registered the loop body never runs and the item is retried at once.
\* ret is what the call returns, or "await" when it suspends on processors[call.idx]
processNextBegin(q0, opts, procs) ==
  LET d == dequeue(q0, opts)
  IN IF d.out = <<>>
     THEN [q |-> q0, call |-> NoCall, ret |-> "false"]
     ELSE IF Len(procs) = 0
     THEN [q |-> retry(d.q, opts, d.out[1].id).q, call |-> NoCall, ret |-> "false"]
     ELSE [q |-> d.q, call |-> [item |-> d.out[1].id, idx |-> 1], ret |-> "await"]

\* a wrong processNextResume: after a success the loop goes on to the next processor
processNextResumeGoesOn(q0, opts, procs, call, outcome) ==
  IF outcome # "throw" /\ call.idx < Len(procs)
  THEN [q |-> IF outcome = "true" THEN complete(q0, call.item).q ELSE q0,
        call |-> [item |-> call.item, idx |-> call.idx + 1], ret |-> "await"]
  ELSE IF outcome = "true"
  THEN [q |-> complete(q0, call.item).q, call |-> NoCall, ret |-> "true"]
  ELSE [q |-> retry(q0, opts, call.item).q, call |-> NoCall, ret |-> "false"]

\* processNext from the await of processors[call.idx] on: complete and return true
\* when the processor resolves true; the next processor when it resolves false;
\* retry and return false after the last processor's false, and in the catch block
processNextResume(q0, opts, procs, call, outcome) ==
  IF outcome = "true"
  THEN [q |-> complete(q0, call.item).q, call |-> NoCall, ret |-> "true"]
  ELSE IF outcome = "false" /\ call.idx < Len(procs)
  THEN [q |-> q0, call |-> [item |-> call.item, idx |-> call.idx + 1], ret |-> "await"]
  ELSE [q |-> retry(q0, opts, call.item).q, call |-> NoCall, ret |-> "false"]

\* a call of processNext, up to its return or its first await, with fewer than n
\* invocations suspended
ProcessNextUpTo(n) ==
  \E b \in {processNextBegin(q, options, processors)} :
    \E retried \in {IF b.ret = "false" THEN IdsOf(dequeue(q, options).out) ELSE {}} :
      /\ b.call # NoCall => Cardinality(Slots \ FreeSlots) < n
      /\ SetQueue(b.q, retried)
      /\ AutoSave(IF b.call = NoCall /\ dequeue(q, options).out # <<>> THEN <<b.q>> ELSE <<>>)
      /\ calls' = IF b.call = NoCall THEN calls
                  ELSE [calls EXCEPT ![LowestFree] = b.call]
      /\ UNCHANGED <<options, processors, clock, nextId>>
      /\ UNCHANGED managerVars

ProcessNext == ProcessNextUpTo(MaxCalls)

\* the promise of processors[idx] settles and the invocation in slot c resumes
ProcessorSettles(c, outcome) ==
  /\ calls[c] # NoCall
  /\ LET r == processNextResume(q, options, processors, calls[c], outcome)
     IN /\ SetQueue(r.q, IF r.ret = "false" THEN Retried({calls[c].item}) ELSE {})
        /\ AutoSave(IF r.ret = "true" THEN completeSaves(q, calls[c].item)
                    ELSE IF r.ret = "false" THEN retrySaves(q, options, calls[c].item)
                    ELSE <<>>)
        /\ calls' = [calls EXCEPT ![c] = r.call]
  /\ UNCHANGED <<options, processors, clock, nextId>>
  /\ UNCHANGED managerVars

queueVars == <<items, processing, options, processors, calls, clock, nextId, retryCalls, handed>>

RemoveAt(s, k) == SubSeq(s, 1, k - 1) \o SubSeq(s, k + 1, Len(s))

\* fs.writeFile opens the path with flag 'w': the file is created, or cut to
\* length zero when it is there, before any of the new text is written
WriteFileOpens(k) ==
  /\ k \in 1..Len(writes)
  /\ ~writes[k].open
  /\ file' = Truncated
  /\ writes' = [writes EXCEPT ![k].open = TRUE]
  /\ UNCHANGED <<queueVars, storageAdapter, loading, unhandled>>
  /\ UNCHANGED managerVars

\* the text is written and the callback runs with no error: the promise resolves
WriteFileCompletes(k) ==
  /\ k \in 1..Len(writes)
  /\ writes[k].open
  /\ file' = writes[k].data
  /\ writes' = RemoveAt(writes, k)
  /\ UNCHANGED <<queueVars, storageAdapter, loading, unhandled>>
  /\ UNCHANGED managerVars

\* the callback runs with an error, from the open or from the write: save rejects,
\* the rejection passes through saveToStorage and autoSave, whose promise the
\* caller dropped
WriteFileFails(k) ==
  /\ k \in 1..Len(writes)
  /\ writes' = RemoveAt(writes, k)
  /\ unhandled' = TRUE
  /\ UNCHANGED <<queueVars, storageAdapter, file, loading>>
  /\ UNCHANGED managerVars

Max(a, b) == IF a > b THEN a ELSE b

\* one more than the largest id of its: uuidv4() never returns an id a loaded item has
NextFree(its, n) == IF \E i \in IdsOf(its) : i >= n
                    THEN 1 + CHOOSE i \in IdsOf(its) : \A j \in IdsOf(its) : j <= i
                    ELSE n

\* loadFromStorage up to its await: load tests existsSync at once and returns the
\* empty state, or starts fs.readFile
LoadFromStorageBegins ==
  /\ storageAdapter
  /\ loading = "idle"
  /\ loading' = IF file.state = "absent" THEN "absent" ELSE "reading"
  /\ UNCHANGED <<queueVars, storageAdapter, file, writes, unhandled>>
  /\ UNCHANGED managerVars

\* the file is read and parsed and loadFromStorage resumes: it replaces the mapping
\* and the in-flight set, or rejects to its caller and assigns nothing
LoadFromStorageResumes ==
  /\ loading # "idle"
  /\ LET r == IF loading = "absent" THEN load(Absent) ELSE load(file)
     IN IF r.ok
        THEN /\ items' = r.items
             /\ processing' = r.processing
             /\ retryCalls' = Counted({}, r.items)
             /\ handed' = [i \in Ids |-> 0]
             /\ nextId' = NextFree(r.items, nextId)
        ELSE UNCHANGED <<items, processing, retryCalls, handed, nextId>>
  /\ loading' = "idle"
  /\ UNCHANGED <<options, processors, calls, clock, storageAdapter, file, writes, unhandled>>
  /\ UNCHANGED managerVars

\* the ids callers pass: every id handed out so far, and one that never was
CallIds == 1..nextId

(***************************************************************************)
(* Spec: the order of selection.  A queue driven through enqueue with      *)
(* every priority and instant, dequeue, complete, retry, peek and          *)
(* dequeueMany.  The selection reads neither retryLimit nor                *)
(* processingAttempts: retryLimit is 1, which lets an item go back once    *)
(* from in-flight to pending behind items enqueued after it.               *)
(***************************************************************************)
Init == Constructed /\ NoAdapter /\ NoManager /\ options.retryLimit = 1

Next ==
  \/ \E data \in Data, priority \in Priorities, t \in clock..MaxTime :
       Enqueue(data, priority, t)
  \/ Dequeue
  \/ \E id \in CallIds : Complete(id)
  \/ \E id \in CallIds : Retry(id)
  \/ Peek
  \/ \E count \in 0..MaxCount : DequeueMany(count)
  \/ \E limit \in 0..MaxCount : Browse(limit)

Spec == Init /\ [][Next]_vars

(***************************************************************************)
(* SpecAll: every method of Queue, with processors registered and          *)
(* processNext invocations suspended on them while other calls run.  The   *)
(* order of selection is Spec's business: here every enqueue leaves the    *)
(* priority out (it defaults to 0) and reads the same instant.             *)
(***************************************************************************)
NextAll ==
  \/ \E data \in Data : Enqueue(data, 0, clock)
  \/ Dequeue
  \/ \E id \in CallIds : Complete(id)
  \/ \E id \in CallIds : Retry(id)
  \/ Peek
  \/ \E count \in 0..MaxCount : DequeueMany(count)
  \/ Clear
  \/ \E limit \in 0..MaxCount : Browse(limit)
  \/ \E ids \in SeqsUpTo(CallIds, MaxBatch) : CompleteMany(ids)
  \/ \E ids \in SeqsUpTo(CallIds, MaxBatch) : RetryMany(ids)
  \/ RegisterProcessor
  \/ ProcessNext
  \/ \E c \in Slots, outcome \in Outcomes : ProcessorSettles(c, outcome)

\* with no priority passed, priorityEnabled changes nothing: it is left off
InitAll == Constructed /\ NoAdapter /\ NoManager /\ ~options.priorityEnabled

SpecAll == InitAll /\ [][NextAll]_vars

(***************************************************************************)
(* Properties.  Each is stated over the state the call is made in: what a  *)
(* method returns and the state it leaves are read off its operator.       *)
(***************************************************************************)
\* present and not in-flight
Eligible == IdsOf(items) \ processing

Distinct(s) == \A i, j \in 1..Len(s) : i # j => s[i] # s[j]

Attempts(its, id) == Get(its, id).processingAttempts

\* r is the id to select among avail: of maximal priority, and among those the one
\* enqueued earliest (ids are handed out in enqueue order)
IsNext(r, avail) ==
  /\ r \in avail
  /\ \A j \in avail :
       \/ Get(items, r).priority > Get(items, j).priority
       \/ Get(items, r).priority = Get(items, j).priority /\ r <= j

\* C1: in every state reachable by Queue operations the in-flight set is a subset
\* of the key set of the item mapping (and the mapping holds each key once), so an
\* id is absent, present and pending, or present and in-flight.
C1_InFlightSubsetOfMapping ==
  /\ processing \subseteq IdsOf(items)
  /\ Distinct(Refs(items))

\* a processNext invocation is suspended on an item that has left the queue while
\* another item is in flight
C1_Witness ==
  \E c \in Slots :
    /\ calls[c] # NoCall
    /\ calls[c].item \notin IdsOf(items)
    /\ processing # {}

\* C2: with priorityEnabled, dequeue returns, among the items present and not
\* in-flight, one of maximal priority and among those the earliest enqueued, and
\* marks it in-flight; successive dequeues come out in non-increasing priority and,
\* for equal priority, in enqueue order, equal timestamps included.
C2_PriorityThenFifo ==
  options.priorityEnabled =>
    /\ LET d == dequeue(q, options)
       IN IF Eligible = {} THEN d.out = <<>> /\ d.q = q
          ELSE /\ Len(d.out) = 1
               /\ IsNext(d.out[1].id, Eligible)
               /\ d.out[1] = Get(items, d.out[1].id)
               /\ d.q = Q(items, processing \cup {d.out[1].id})
    /\ LET out == dequeueMany(q, options, MaxCount).out
       IN \A i, j \in 1..Len(out) :
            i < j => \/ out[i].priority > out[j].priority
                     \/ out[i].priority = out[j].priority /\ out[i].id < out[j].id

\* dequeue has handed out r, enqueued later than j with a higher priority and the
\* same timestamp, while j, never dequeued, is still waiting
C2_Witness ==
  /\ options.priorityEnabled
  /\ \E r \in processing, j \in Eligible :
       /\ j < r
       /\ Get(items, j).priority < Get(items, r).priority
       /\ Get(items, j).addedAt = Get(items, r).addedAt
       /\ Attempts(items, j) = 0
       /\ Attempts(items, r) = 0

\* C3: without priorityEnabled, enqueue stores priority 0 whatever priority is
\* passed, and dequeue returns, of the items not in-flight, the one enqueued first.
C3_FifoWithoutPriority ==
  ~options.priorityEnabled =>
    /\ \A data \in Data, p \in Priorities :
         enqueueItem(options, nextId, data, p, clock).priority = 0
    /\ \A i \in 1..Len(items) : items[i].priority = 0
    /\ LET d == dequeue(q, options)
       IN IF Eligible = {} THEN d.out = <<>>
          ELSE /\ Len(d.out) = 1
               /\ d.out[1].id \in Eligible
               /\ \A j \in Eligible : d.out[1].id <= j

\* two items enqueued at the same instant are waiting, and come out first-in
\* first-out
C3_Witness ==
  /\ ~options.priorityEnabled
  /\ Eligible = {1, 2}
  /\ Get(items, 1).addedAt = Get(items, 2).addedAt
  /\ Refs(dequeue(q, options).out) = <<1>>
  /\ Refs(dequeue(dequeue(q, options).q, options).out) = <<2>>

\* C4: size counts the in-flight items: a dequeue that returns an item leaves size
\* unchanged, a complete that returns true lowers it by exactly one, a complete
\* that returns false leaves it unchanged.
C4_SizeCountsInFlight ==
  /\ size(q) = Cardinality(Eligible) + Cardinality(processing)
  /\ LET d == dequeue(q, options)
     IN d.out # <<>> => size(d.q) = size(q)
  /\ \A id \in AnyId :
       LET c == complete(q, id)
       IN size(c.q) = IF c.ok THEN size(q) - 1 ELSE size(q)

\* every item has been dequeued and the size is still two
C4_Witness ==
  /\ Cardinality(processing) = 2
  /\ size(q) = 2
  /\ \E id \in processing : size(complete(q, id).q) = 1

\* C5: enqueue fails exactly when the mapping size, pending plus in-flight, is at
\* least maxSize; a failed enqueue leaves the mapping and the in-flight set as they
\* were; a successful one adds one item; so size never exceeds maxSize.
C5_Capacity ==
  /\ size(q) <= options.maxSize
  /\ \A data \in Data, p \in Priorities :
       LET e == enqueue(q, options, nextId, data, p, clock)
       IN /\ ~e.ok <=> size(q) >= options.maxSize
          /\ ~e.ok => e.q = q
          /\ e.ok => /\ size(e.q) = size(q) + 1
                     /\ e.q.processing = processing

\* the queue is full with one item pending and one in flight, and enqueue fails
C5_Witness ==
  /\ size(q) = options.maxSize
  /\ processing # {}
  /\ Eligible # {}
  /\ \A data \in Data : ~enqueue(q, options, nextId, data, 0, clock).ok

\* C6: complete(id) returns true exactly when id is in-flight; then the id leaves
\* the in-flight set and the mapping and nothing else changes; when it returns
\* false (unknown, pending or already completed id) the state is unchanged.
C6_Complete ==
  \A id \in AnyId :
    LET c == complete(q, id)
    IN /\ c.ok <=> id \in processing
       /\ c.ok => /\ c.q.processing = processing \ {id}
                  /\ IdsOf(c.q.items) = IdsOf(items) \ {id}
                  /\ \A j \in IdsOf(c.q.items) : Get(c.q.items, j) = Get(items, j)
       /\ ~c.ok => c.q = q

\* one id is in flight, another has been handed out and completed already:
\* completing the first succeeds, completing the second again does not
C6_Witness ==
  /\ \E i \in processing : complete(q, i).ok
  /\ \E j \in 1..(nextId - 1) :
       /\ j \notin IdsOf(items)
       /\ ~complete(q, j).ok

\* C7: retry(id) on an in-flight item with processingAttempts < retryLimit returns
\* true, adds exactly one to processingAttempts, releases the id from the in-flight
\* set and keeps the item in the mapping, where dequeue finds it again; on an id
\* that is not in-flight it returns false and changes nothing.
C7_Retry ==
  \A id \in AnyId :
    LET r == retry(q, options, id)
    IN /\ (id \in processing /\ Attempts(items, id) < options.retryLimit) =>
            /\ r.ok
            /\ Refs(r.q.items) = Refs(items)
            /\ Attempts(r.q.items, id) = Attempts(items, id) + 1
            /\ \A j \in IdsOf(items) \ {id} : Get(r.q.items, j) = Get(items, j)
            /\ r.q.processing = processing \ {id}
            /\ id \in IdsOf(availableItems(r.q.items, r.q.processing))
       /\ id \notin processing => ~r.ok /\ r.q = q

\* an item has been retried as often as the largest limit allows and waits again
C7_Witness ==
  /\ options.retryLimit = MaxRetryOpt
  /\ \E id \in Eligible : Attempts(items, id) = options.retryLimit

\* C8: for an item dequeued and retried over and over, retry returns true as long
\* as fewer than retryLimit retries have succeeded, and the retry after that
\* returns false and removes the item from the mapping and the in-flight set, from
\* what browse returns and from size.
C8_RetryExhaustion ==
  \A id \in processing :
    LET r == retry(q, options, id)
    IN /\ r.ok <=> retryCalls[id] < options.retryLimit
       /\ ~r.ok => /\ id \notin IdsOf(r.q.items)
                   /\ id \notin r.q.processing
                   /\ id \notin IdsOf(browse(r.q, options, size(q)))
                   /\ size(r.q) = size(q) - 1

\* an item retried retryLimit times with success is in flight once more, and the
\* next retry gives it up
C8_Witness ==
  /\ options.retryLimit = MaxRetryOpt
  /\ \E id \in processing :
       /\ retryCalls[id] = options.retryLimit
       /\ ~retry(q, options, id).ok
       /\ id \in IdsOf(browse(q, options, size(q)))

\* C9: peek changes neither the mapping nor the in-flight set and returns the item
\* a dequeue in the same state returns; both return nothing exactly when the
\* mapping is empty or every item is in-flight.
C9_PeekIsNextDequeue ==
  LET p == peek(q, options)
      d == dequeue(q, options)
  IN /\ p.q = q
     /\ p.out = d.out
     /\ p.out = <<>> <=> (items = <<>> \/ IdsOf(items) \subseteq processing)

\* the first item of the mapping is in flight and peek shows the one behind it
C9_Witness ==
  /\ processing # {}
  /\ peek(q, options).out # <<>>
  /\ items[1].id \in processing
  /\ peek(q, options).out[1].id # items[1].id

\* C10: dequeueMany(count) returns min(count, number of items not in-flight)
\* pairwise distinct items, in the order successive dequeue calls return them,
\* marks exactly those in-flight, and returns the empty list when nothing is
\* eligible.
C10_DequeueMany ==
  \A count \in 0..MaxCount :
    LET d == dequeueMany(q, options, count)
        out == Refs(d.out)
        first == dequeue(q, options)
    IN /\ Len(out) = Min(count, Cardinality(Eligible))
       /\ Distinct(out)
       /\ \A k \in 1..Len(out) :
            /\ IsNext(out[k], Eligible \ {out[i] : i \in 1..(k - 1)})
            /\ d.out[k] = Get(items, out[k])
       /\ (count > 0 /\ first.out # <<>>) =>
            /\ d.out # <<>>
            /\ d.out[1] = first.out[1]
            /\ Tail(d.out) = dequeueMany(first.q, options, count - 1).out
       /\ d.q.processing = processing \cup Range(out)
       /\ d.q.items = items
       /\ Eligible = {} => d.out = <<>>

\* more items are asked for than are waiting, and the later, higher-priority one
\* comes first
C10_Witness ==
  /\ Cardinality(Eligible) < MaxCount
  /\ Refs(dequeueMany(q, options, MaxCount).out) = <<2, 1>>

(***************************************************************************)
(* SpecBatch: the batch methods, on id lists of up to MaxList ids, over a  *)
(* queue filled by enqueue and handed out by dequeue and dequeueMany.      *)
(***************************************************************************)
NextBatch ==
  \/ \E data \in Data, t \in clock..MaxTime : Enqueue(data, 0, t)
  \/ Dequeue
  \/ \E count \in 0..MaxCount : DequeueMany(count)
  \/ \E ids \in SeqsUpTo(CallIds, MaxList) : CompleteMany(ids)
  \/ \E ids \in SeqsUpTo(CallIds, MaxList) : RetryMany(ids)

SpecBatch == InitAll /\ [][NextBatch]_vars

\* C11: completeMany and retryMany apply complete / retry to each id in list
\* order: the counts add up to the length of the list, succeeded counts the ids
\* whose single operation returned true, an id that fails for not being in-flight
\* at its turn (pending, unknown, or repeated after its first occurrence succeeded)
\* is left as it was, and what was done for the ids that succeeded stays done.
C11_BatchCounts ==
  \A ids \in SeqsUpTo(AnyId, MaxList) :
    LET c == completeMany(q, ids)
        r == retryMany(q, options, ids)
        hit == Range(ids) \cap processing
        again == {j \in hit : Attempts(items, j) < options.retryLimit}
    IN /\ c.succeeded + c.failed = Len(ids)
       /\ c.succeeded = Cardinality(hit)
       /\ c.q = Q(SelectSeq(items, LAMBDA it : it.id \notin hit), processing \ hit)
       /\ r.succeeded + r.failed = Len(ids)
       /\ r.succeeded = Cardinality(again)
       /\ r.q.processing = processing \ hit
       /\ IdsOf(r.q.items) = IdsOf(items) \ (hit \ again)
       /\ \A j \in IdsOf(r.q.items) :
            Get(r.q.items, j) =
              IF j \in again
              THEN [Get(items, j) EXCEPT !.processingAttempts = @ + 1]
              ELSE Get(items, j)
       /\ ids # <<>> =>
            LET c1 == complete(q, Head(ids))
                cs == completeMany(c1.q, Tail(ids))
                r1 == retry(q, options, Head(ids))
                rs == retryMany(r1.q, options, Tail(ids))
            IN /\ c.q = cs.q
               /\ c.succeeded = cs.succeeded + (IF c1.ok THEN 1 ELSE 0)
               /\ c.failed = cs.failed + (IF c1.ok THEN 0 ELSE 1)
               /\ r.q = rs.q
               /\ r.succeeded = rs.succeeded + (IF r1.ok THEN 1 ELSE 0)
               /\ r.failed = rs.failed + (IF r1.ok THEN 0 ELSE 1)

\* a list names a pending id first and an in-flight id after it: the first fails
\* and stays, the second is completed all the same
C11_Witness ==
  \E i \in Eligible, j \in processing :
    LET c == completeMany(q, <<i, j>>)
    IN /\ c.succeeded = 1
       /\ c.failed = 1
       /\ IdsOf(c.q.items) = IdsOf(items) \ {j}
       /\ Get(c.q.items, i) = Get(items, i)

\* a comes no later than b in the listing order of browse: pending before
\* in-flight, then the higher priority first when priorityEnabled, then the
\* earlier addedAt, then the earlier enqueue
ListedBefore(a, b) ==
  LET aFlight == a.id \in processing
      bFlight == b.id \in processing
  IN IF aFlight # bFlight THEN bFlight
     ELSE IF options.priorityEnabled /\ a.priority # b.priority
          THEN a.priority > b.priority
          ELSE IF a.addedAt # b.addedAt THEN a.addedAt < b.addedAt
               ELSE a.id <= b.id

\* C12: browse(limit) returns the first `limit` items of the list of all items,
\* in-flight included, ordered pending before in-flight, then by priority
\* descending when priorityEnabled, then by addedAt ascending; with limit >= size
\* it returns every item exactly once.
C12_Browse ==
  LET all == browse(q, options, size(q))
  IN /\ Len(all) = size(q)
     /\ Range(all) = Range(items)
     /\ \A i, j \in 1..Len(all) : i < j => ListedBefore(all[i], all[j])
     /\ \A limit \in 0..MaxCount :
          LET b == browse(q, options, limit)
          IN /\ Len(b) = Min(limit, size(q))
             /\ b = SubSeq(all, 1, Len(b))
             /\ limit >= size(q) => b = all

\* the item enqueued first is in flight: browse lists it behind the pending one,
\* and browse(1) leaves it out
C12_Witness ==
  /\ processing = {1}
  /\ Refs(browse(q, options, MaxCount)) = <<2, 1>>
  /\ Refs(browse(q, options, 1)) = <<2>>

(***************************************************************************)
(* SpecProc: a queue consumed through processNext alone.  Items are        *)
(* enqueued, processors are registered (one more than elsewhere, so that   *)
(* there is a later processor to go on to), and processNext invocations    *)
(* overlap (one more than elsewhere, so that two are suspended at once);   *)
(* nobody else completes or retries the item an invocation holds.          *)
(***************************************************************************)
NextProc ==
  \/ \E data \in Data : Enqueue(data, 0, clock)
  \/ RegisterProcessorUpTo(MaxProcessors + 1)
  \/ ProcessNextUpTo(MaxCalls + 1)
  \/ \E c \in Slots, outcome \in Outcomes : ProcessorSettles(c, outcome)

SpecProc == InitAll /\ [][NextProc]_vars

\* C13: processNext returns false and changes nothing when no item is eligible;
\* otherwise it dequeues the selected item and invokes the processors in
\* registration order; on the first that reports success it completes the item,
\* which leaves the queue, and returns true without invoking a later one; when no
\* processor succeeds it retries the item and returns false.
C13_ProcessNext ==
  /\ LET b == processNextBegin(q, options, processors)
         d == dequeue(q, options)
     IN IF Eligible = {}
        THEN b.ret = "false" /\ b.q = q /\ b.call = NoCall
        ELSE IF processors = <<>>
        THEN /\ b.ret = "false"
             /\ b.call = NoCall
             /\ b.q = retry(d.q, options, d.out[1].id).q
             /\ d.out[1].id \notin b.q.processing
        ELSE /\ b.ret = "await"
             /\ b.call = [item |-> d.out[1].id, idx |-> 1]
             /\ b.q = d.q
  /\ \A c \in Slots :
       calls[c] # NoCall =>
         LET id == calls[c].item
             idx == calls[c].idx
             onTrue == processNextResume(q, options, processors, calls[c], "true")
             onFalse == processNextResume(q, options, processors, calls[c], "false")
         IN /\ id \in processing
            /\ idx \in 1..Len(processors)
            /\ onTrue.ret = "true"
            /\ onTrue.call = NoCall
            /\ complete(q, id).ok
            /\ onTrue.q = complete(q, id).q
            /\ id \notin IdsOf(onTrue.q.items)
            /\ IF idx < Len(processors)
               THEN /\ onFalse.ret = "await"
                    /\ onFalse.call = [item |-> id, idx |-> idx + 1]
                    /\ onFalse.q = q
               ELSE /\ onFalse.ret = "false"
                    /\ onFalse.call = NoCall
                    /\ onFalse.q = retry(q, options, id).q
                    /\ id \notin onFalse.q.processing

\* an invocation awaits the first of two processors while another item waits: its
\* success ends the call with the item gone and the second processor not invoked
C13_Witness ==
  /\ Len(processors) = 2
  /\ Eligible # {}
  /\ \E c \in Slots :
       /\ calls[c] # NoCall
       /\ calls[c].idx = 1
       /\ processNextResume(q, options, processors, calls[c], "true").ret = "true"
       /\ processNextResume(q, options, processors, calls[c], "false").call.idx = 2

\* C14: a processor that throws is treated as one that returns false: processNext
\* goes on to the processors registered after it.
C14_ThrowIsFalse ==
  \A c \in Slots :
    calls[c] # NoCall =>
      processNextResume(q, options, processors, calls[c], "throw")
        = processNextResume(q, options, processors, calls[c], "false")

\* id i is in-flight when the step retries or completes it: it was in-flight
\* before the step, or the step is a processNext that dequeues it first
Held(i) == i \in processing \/ <<i>> = Refs(nextItem(q, options))

\* the step keeps item i: same id, data, addedAt and priority, and the same
\* processingAttempts, or one more with the item released from the in-flight set
Kept(i) ==
  /\ i \in IdsOf(items')
  /\ LET a == Get(items, i)
         b == Get(items', i)
     IN /\ b.id = a.id
        /\ b.data = a.data
        /\ b.addedAt = a.addedAt
        /\ b.priority = a.priority
        /\ \/ b.processingAttempts = a.processingAttempts
           \/ /\ b.processingAttempts = a.processingAttempts + 1
              /\ Held(i)
              /\ i \notin processing'

\* the step removes item i, which was in-flight: a complete, or a retry at the limit
Gone(i) == i \notin IdsOf(items') /\ Held(i)

\* the step is a clear
Cleared == items' = <<>> /\ processing' = {}

\* C15 as stated: an item stays in the mapping unchanged but for +1 on
\* processingAttempts at a successful retry, and leaves it only through a complete
\* that returns true or a retry at the retry limit.
C15_LifecycleAsStated ==
  [][items' # items => \A i \in IdsOf(items) : Kept(i) \/ Gone(i)]_vars

\* C15, amended: under the methods of Queue other than loadFromStorage an item
\* stays in the mapping unchanged but for +1 on processingAttempts at a successful
\* retry, and leaves it only through a complete that returns true, a retry at the
\* retry limit, or clear(), which removes every item.
C15_Lifecycle ==
  [][items' # items => \A i \in IdsOf(items) : Kept(i) \/ Gone(i) \/ Cleared]_vars

\* an item retried at least once is still in the mapping and another has left it
C15_Witness ==
  /\ \E i \in IdsOf(items) : Attempts(items, i) >= 1
  /\ \E j \in 1..(nextId - 1) : j \notin IdsOf(items)

(***************************************************************************)
(* SpecStore: a queue that setStorageAdapter gave a FileStorageAdapter on  *)
(* a path where no file is, driven through enqueue, dequeue, complete and  *)
(* retry while the writes autoSave started run.                            *)
(***************************************************************************)
InitStore == Constructed /\ AdapterOn(Absent) /\ NoManager /\ ~options.priorityEnabled

NextStore ==
  \/ \E data \in Payloads : Enqueue(data, 0, clock)
  \/ Dequeue
  \/ \E id \in CallIds : Complete(id)
  \/ \E id \in CallIds : Retry(id)
  \/ \E k \in 1..MaxWrites : WriteFileOpens(k)
  \/ \E k \in 1..MaxWrites : WriteFileCompletes(k)
  \/ \E k \in 1..MaxWrites : WriteFileFails(k)

SpecStore == InitStore /\ [][NextStore]_vars

\* C16: save followed by load gives back the mapping, with the same ids, payloads,
\* priorities, processingAttempts and addedAt values in the same order, and the
\* same in-flight set, in every state of the queue
C16_RoundTrip ==
  load(save(q)) = [ok |-> TRUE, items |-> items, processing |-> processing]

(***************************************************************************)
(* SpecRestart: a queue with an adapter on a path where a run before this  *)
(* one, or something else, left a file: loadFromStorage, enqueue and       *)
(* dequeue, and the writes autoSave started.                               *)
(***************************************************************************)
\* an item a run before this one left in the snapshot, in flight
LeftItem == [id |-> 1, data |-> "a", addedAt |-> 0, priority |-> 0, processingAttempts |-> 1]

\* what the file holds when the program starts: nothing, no text, text that is not
\* JSON, {"processing":[]} , {} , {"items":[]} , {"items":[[1,...]]} , and the
\* snapshots save wrote of an empty queue and of a queue holding LeftItem
DiskContents ==
  {Absent, Truncated, Garbage,
   FileOf("json", FALSE, TRUE, <<>>, <<>>),
   FileOf("json", FALSE, FALSE, <<>>, <<>>),
   FileOf("json", TRUE, FALSE, <<>>, <<>>),
   FileOf("json", TRUE, FALSE, save(Q(<<LeftItem>>, {})).items, <<>>),
   save(Q(<<>>, {})),
   save(Q(<<LeftItem>>, {1}))}

InitRestart == /\ Constructed
               /\ \E f \in DiskContents : AdapterOn(f)
               /\ NoManager
               /\ ~options.priorityEnabled

NextRestart ==
  \/ LoadFromStorageBegins
  \/ LoadFromStorageResumes
  \/ \E data \in Data : Enqueue(data, 0, clock)
  \/ Dequeue
  \/ \E k \in 1..MaxWrites : WriteFileOpens(k)
  \/ \E k \in 1..MaxWrites : WriteFileCompletes(k)

SpecRestart == InitRestart /\ [][NextRestart]_vars

\* the file holds a JSON object with an items list and an in-flight list
HasShape(f) == f.state = "json" /\ f.hasItems /\ f.hasProcessing

\* C17: load gives the empty mapping and the empty in-flight set, with no error,
\* when no snapshot was written yet; on a file that is malformed or has not the
\* (items list, in-flight list) shape it fails with an error and gives no state
C17_Load ==
  /\ file.state = "absent" => load(file) = [ok |-> TRUE, items |-> <<>>, processing |-> {}]
  /\ (file.state # "absent" /\ ~HasShape(file)) => load(file) = Rejected

\* C18: with a storage adapter, every call that changes the queue (enqueue,
\* dequeue, complete, retry in both branches) starts a write of the state it left:
\* once the writes started have completed, the file holds the snapshot of the
\* mapping and the in-flight set in memory
C18_Checkpointed ==
  (storageAdapter /\ nextId > 1 /\ writes = <<>> /\ ~unhandled) => file = save(q)

\* C19: a write that autoSave started fails: the failure is caught where it arose.
\* The mapping and the in-flight set stay as the call left them, and no rejection
\* is left without a handler
C19_FailureCaught ==
  [][(\E k \in 1..MaxWrites : WriteFileFails(k))
       => (items' = items /\ processing' = processing /\ ~unhandled')]_vars

\* C20: while a save of the file is under way, a load finds the whole snapshot of
\* before (or no file, when none was written) or the whole new one, never an
\* empty or partly written file
C20_AtomicSnapshot ==
  writes # <<>> => (load(file).ok /\ (file = Absent \/ HasShape(file)))

(***************************************************************************)
(* QueueManager (src/src/queue/QueueManager.ts): the registry of queues by *)
(* name.  A Queue object is its index in heap; 0 stands for undefined.     *)
(* The files of the managed queues are not followed here: a load finds     *)
(* any of DiskContents, and a write of saveAllQueues succeeds or fails.    *)
(***************************************************************************)
\* the options createQueue is passed: { maxSize: MaxHeld }
ManagedOptions == QueueOptionsOf(MaxHeld, 0, FALSE)

\* the Queue createQueue makes: with a storage directory it is given an adapter
\* and its loadFromStorage is started and left running
NewQueue(dir) ==
  [items |-> <<>>, processing |-> {}, storageAdapter |-> dir, loading |-> dir,
   nextId |-> 1, subscribers |-> <<>>, isComplete |-> FALSE, enqueued |-> 0]

M(reg, objs, dir) == [queues |-> reg, heap |-> objs, storageDir |-> dir]

manager == M(queues, heap, storageDir)

\* this.queues.has(name)
has(reg, name) == \E k \in 1..Len(reg) : reg[k].name = name

getQueue(reg, name) ==
  IF has(reg, name)
  THEN reg[CHOOSE k \in 1..Len(reg) : reg[k].name = name].queue
  ELSE 0

\* a wrong createQueue: no test of the name, the new queue takes the place of the old
createQueueOverwrites(mgr, name) ==
  [m |-> M(Append(SelectSeq(mgr.queues, LAMBDA e : e.name # name),
                  [name |-> name, queue |-> Len(mgr.heap) + 1]),
           Append(mgr.heap, NewQueue(mgr.storageDir)), mgr.storageDir),
   ok |-> TRUE,
   queue |-> Len(mgr.heap) + 1]

\* createQueue: ok = FALSE is the throw; queue is the Queue returned
createQueue(mgr, name) ==
  IF has(mgr.queues, name)
  THEN [m |-> mgr, ok |-> FALSE, queue |-> 0]
  ELSE [m |-> M(Append(mgr.queues, [name |-> name, queue |-> Len(mgr.heap) + 1]),
                Append(mgr.heap, NewQueue(mgr.storageDir)), mgr.storageDir),
        ok |-> TRUE,
        queue |-> Len(mgr.heap) + 1]

\* a wrong removeQueue: it reports true whether or not the name was there
removeQueueAlwaysTrue(reg, name) ==
  [queues |-> SelectSeq(reg, LAMBDA e : e.name # name), ok |-> TRUE]

\* removeQueue: Map.delete returns whether the key was there
removeQueue(reg, name) ==
  [queues |-> SelectSeq(reg, LAMBDA e : e.name # name), ok |-> has(reg, name)]

listQueues(reg) == [k \in 1..Len(reg) |-> reg[k].name]

CreateQueue(name) ==
  LET c == createQueue(manager, name)
  IN /\ c.ok => Len(heap) < MaxQueues
     /\ queues' = c.m.queues
     /\ heap' = c.m.heap
     /\ latest' = IF c.ok THEN [latest EXCEPT ![name] = c.queue] ELSE latest
     /\ UNCHANGED <<storageDir, saveAll, queueVars, storageVars, serviceVars>>

RemoveQueue(name) ==
  LET r == removeQueue(queues, name)
  IN /\ queues' = r.queues
     /\ latest' = IF r.ok THEN [latest EXCEPT ![name] = 0 - @] ELSE latest
     /\ UNCHANGED <<storageDir, heap, saveAll, queueVars, storageVars, serviceVars>>

\* the state of a managed queue as the Queue operators take it
StateOf(obj) == Q(obj.items, obj.processing)

Put(obj, nq) == [obj EXCEPT !.items = nq.items, !.processing = nq.processing]

\* enqueue(data) on the Queue object i
QueueEnqueue(i, data) ==
  LET e == enqueue(StateOf(heap[i]), ManagedOptions, heap[i].nextId, data, 0, clock)
  IN IF ~e.ok
     THEN UNCHANGED vars
     ELSE /\ heap[i].nextId <= MaxAdds
          /\ heap' = [heap EXCEPT ![i] = [Put(@, e.q) EXCEPT !.nextId = @ + 1,
                                                              !.enqueued = @ + 1]]
          /\ UNCHANGED <<storageDir, queues, latest, saveAll, queueVars, storageVars, serviceVars>>

QueueDequeue(i) ==
  /\ heap' = [heap EXCEPT ![i] = Put(@, dequeue(StateOf(heap[i]), ManagedOptions).q)]
  /\ UNCHANGED <<storageDir, queues, latest, saveAll, queueVars, storageVars, serviceVars>>

QueueComplete(i, id) ==
  /\ heap' = [heap EXCEPT ![i] = Put(@, complete(StateOf(heap[i]), id).q)]
  /\ UNCHANGED <<storageDir, queues, latest, saveAll, queueVars, storageVars, serviceVars>>

\* the loadFromStorage createQueue started resumes on queue i: the mapping and the
\* in-flight set are replaced by what load read, or load rejected and the catch
\* handler createQueue attached does nothing
QueueLoads(i, f) ==
  /\ heap[i].loading
  /\ heap' = [heap EXCEPT ![i] =
                IF load(f).ok
                THEN [@ EXCEPT !.items = load(f).items,
                               !.processing = load(f).processing,
                               !.nextId = NextFree(load(f).items, @),
                               !.loading = FALSE]
                ELSE [@ EXCEPT !.loading = FALSE]]
  /\ UNCHANGED <<storageDir, queues, latest, saveAll, queueVars, storageVars, serviceVars>>

\* the Queue objects in the registry, in its order
Registered(reg) == {reg[k].queue : k \in 1..Len(reg)}

\* saveAllQueues up to its await: saveToStorage is called on every queue of the
\* registry.  It is an async function: with no adapter it returns a rejected
\* promise and throws nothing, so the catch block is never entered; with an
\* adapter the write is started.  Promise.all rejects when one of the promises does
saveAllQueues(reg, objs) ==
  LET all == Registered(reg)
      writing == {i \in all : objs[i].storageAdapter}
  IN [state |-> IF writing # all THEN "rejected"
                ELSE IF writing = {} THEN "resolved" ELSE "pending",
      started |-> all,
      writing |-> writing]

SaveAllQueues ==
  /\ saveAll.writing = {}
  /\ saveAll' = saveAllQueues(queues, heap)
  /\ UNCHANGED <<storageDir, queues, heap, latest, queueVars, storageVars, serviceVars>>

\* the write saveAllQueues started for queue i ends, well or with an error
SaveSettles(i, ok) ==
  /\ i \in saveAll.writing
  /\ saveAll' = [saveAll EXCEPT
                   !.writing = @ \ {i},
                   !.state = IF saveAll.state # "pending" THEN @
                             ELSE IF ~ok THEN "rejected"
                             ELSE IF saveAll.writing = {i} THEN "resolved"
                             ELSE @]
  /\ UNCHANGED <<storageDir, queues, heap, latest, queueVars, storageVars, serviceVars>>

(***************************************************************************)
(* Queue events.  The sources declare the event types, QueueEvent,         *)
(* QueueSubscriber and the batchSize option (Queue.ts 328-364) and call    *)
(* queue.subscribe, queue.unsubscribe, queue.markAsComplete and            *)
(* queue.resetComplete (part_003), but the Queue class they have emits     *)
(* nothing: the emission and these four methods follow the specification   *)
(* (4.1 and the design notes).  An event is its type, the id of the item   *)
(* it carries (0 for none) and the number it carries (0 for none); its     *)
(* queueName and timestamp are left out.                                   *)
(***************************************************************************)
EventTypes == {"batchReady", "queueComplete", "itemAdded", "itemProcessed", "queueEmpty"}

Event(type, item, n) == [type |-> type, item |-> item, n |-> n]

\* the batchSize option of the managed queues
ManagedBatchSize == MaxBatchSize

\* a wrong enqueue: batchReady by the size of the mapping
enqueueEventsBySize(obj, id) ==
  LET e == enqueue(StateOf(obj), ManagedOptions, id, "a", 0, 0)
  IN IF ~e.ok THEN <<>>
     ELSE <<Event("itemAdded", id, 0)>>
            \o (IF size(e.q) % ManagedBatchSize = 0
                THEN <<Event("batchReady", 0, ManagedBatchSize)>> ELSE <<>>)

\* the events of enqueue storing an item under id: itemAdded, and batchReady when
\* the count of enqueues reaches a multiple of batchSize (the count is of
\* enqueues: an item that left the queue is not taken off it)
enqueueEvents(obj, id) ==
  LET e == enqueue(StateOf(obj), ManagedOptions, id, "a", 0, 0)
  IN IF ~e.ok THEN <<>>
     ELSE <<Event("itemAdded", id, 0)>>
            \o (IF (obj.enqueued + 1) % ManagedBatchSize = 0
                THEN <<Event("batchReady", 0, ManagedBatchSize)>> ELSE <<>>)

\* a wrong complete: the events are emitted whatever complete returns
completeEventsUnchecked(obj, id) ==
  LET c == complete(StateOf(obj), id)
  IN <<Event("itemProcessed", id, 0)>>
       \o (IF c.q.items = <<>> THEN <<Event("queueEmpty", 0, 0)>> ELSE <<>>)

\* the events of complete(id): itemProcessed, then queueEmpty if the mapping is empty
completeEvents(obj, id) ==
  LET c == complete(StateOf(obj), id)
  IN IF ~c.ok THEN <<>>
     ELSE <<Event("itemProcessed", id, 0)>>
            \o (IF c.q.items = <<>> THEN <<Event("queueEmpty", 0, 0)>> ELSE <<>>)

\* a wrong dequeue: queueComplete whether or not the queue is marked complete
dequeueEventsUnmarked(obj) ==
  IF dequeue(StateOf(obj), ManagedOptions).out = <<>>
  THEN <<Event("queueComplete", 0, Cardinality(obj.processing))>>
  ELSE <<>>

\* the events of dequeue: queueComplete with the in-flight count when the queue is
\* marked complete and the dequeue finds no item
dequeueEvents(obj) ==
  IF obj.isComplete /\ dequeue(StateOf(obj), ManagedOptions).out = <<>>
  THEN <<Event("queueComplete", 0, Cardinality(obj.processing))>>
  ELSE <<>>

markAsComplete(obj) == [obj EXCEPT !.isComplete = TRUE]
resetComplete(obj) == [obj EXCEPT !.isComplete = FALSE]

\* subscribe(sub): one more receiver of the queue's events
subscribe(obj, sub) == [obj EXCEPT !.subscribers = Append(@, sub)]

(***************************************************************************)
(* SpecManager: new QueueManager() with no storage directory: queues are   *)
(* created and removed by name, and items put on them and taken.           *)
(***************************************************************************)
\* the Queue of the single-queue specifications is not used
QueueUnused == Constructed /\ NoAdapter /\ options = QueueOptionsOf(1, 1, FALSE)

InitManager == QueueUnused /\ ManagerConstructed(FALSE)

Objects == 1..Len(heap)

NextManager ==
  \/ \E name \in QueueNames : CreateQueue(name)
  \/ \E name \in QueueNames : RemoveQueue(name)
  \/ \E i \in Objects, data \in Data : QueueEnqueue(i, data)
  \/ \E i \in Objects : QueueDequeue(i)
  \/ \E i \in Objects, id \in 1..MaxAdds : QueueComplete(i, id)

SpecManager == InitManager /\ [][NextManager]_vars

(***************************************************************************)
(* SpecSaveAll: a QueueManager with or without a storage directory, its    *)
(* queues, the loads createQueue starts, and saveAllQueues.                *)
(***************************************************************************)
InitSaveAll == QueueUnused /\ \E dir \in BOOLEAN : ManagerConstructed(dir)

NextSaveAll ==
  \/ \E name \in QueueNames : CreateQueue(name)
  \/ \E i \in Objects, data \in Data : QueueEnqueue(i, data)
  \/ \E i \in Objects, f \in DiskContents : QueueLoads(i, f)
  \/ SaveAllQueues
  \/ \E i \in Objects, ok \in BOOLEAN : SaveSettles(i, ok)

SpecSaveAll == InitSaveAll /\ [][NextSaveAll]_vars

\* C21: createQueue(name) on a name that is registered fails, and it leaves the
\* registry as it was: getQueue(name) is still the queue it was, with its items
\* and its in-flight set
C21_DuplicateName ==
  \A name \in QueueNames :
    has(queues, name) =>
      LET c == createQueue(manager, name)
          was == getQueue(queues, name)
      IN /\ ~c.ok
         /\ c.m.queues = queues
         /\ getQueue(c.m.queues, name) = was
         /\ StateOf(c.m.heap[was]) = StateOf(heap[was])

\* a registered queue that holds an item in flight: a createQueue on its name fails
C21_Witness ==
  \E name \in QueueNames :
    /\ has(queues, name)
    /\ heap[getQueue(queues, name)].processing # {}
    /\ ~createQueue(manager, name).ok

\* the names created and not removed since, by the history
Created == {n \in QueueNames : latest[n] > 0}

\* C22: listQueues gives the names created and not removed since, each once;
\* getQueue(name) is the queue the latest successful createQueue(name) returned, or
\* nothing when the name is not registered; removeQueue(name) returns true exactly
\* when the name was registered; a removed name can be created again
C22_Registry ==
  /\ Range(listQueues(queues)) = Created
  /\ Len(listQueues(queues)) = Cardinality(Created)
  /\ \A name \in QueueNames :
       /\ getQueue(queues, name) = (IF name \in Created THEN latest[name] ELSE 0)
       /\ removeQueue(queues, name).ok = (name \in Created)
       /\ ~has(removeQueue(queues, name).queues, name)
       /\ latest[name] < 0 =>
            LET c == createQueue(manager, name)
            IN c.ok /\ getQueue(c.m.queues, name) = c.queue /\ c.queue = Len(heap) + 1

\* one name is registered and the other was created and removed
C22_Witness ==
  /\ \E name \in QueueNames : latest[name] < 0
  /\ \E name \in QueueNames : latest[name] > 0

\* C23: saveAllQueues is best-effort per queue: when the save of one queue fails
\* (the write fails, or the queue has no storage adapter) the failure is caught
\* and saveAllQueues raises no error
C23_BestEffort == saveAll.state # "rejected"


(***************************************************************************)
(* QueueNotificationService (part_003).  A subscriber and the wrapper      *)
(* subscribeToQueue makes for it are objects, compared by identity: Sub(n) *)
(* is the caller's n-th subscriber, Wrap(k) the k-th wrapper made, and     *)
(* wrappers[k] is what Wrap(k) closes over: the subscriber and the         *)
(* options.  The options are eventTypes (typed: whether it is given) and   *)
(* filterFn, named by what it computes.                                    *)
(***************************************************************************)
Sub(n) == [wrapper |-> FALSE, n |-> n]
Wrap(k) == [wrapper |-> TRUE, n |-> k]
Subscribers == {Sub(1), Sub(2)}

NotificationOptions(typed, eventTypes, filterFn) ==
  [typed |-> typed, eventTypes |-> eventTypes, filterFn |-> filterFn]
NoOptions == NotificationOptions(FALSE, {}, "none")
OnlyAdded == NotificationOptions(TRUE, {"itemAdded"}, "none")
FirstAdded == NotificationOptions(TRUE, {"itemAdded"}, "firstItem")
OptionsGiven == {NoOptions, OnlyAdded, FirstAdded}

\* filterFn(event), for the filterFn of the given name: event => event.data?.item?.id === 1
filterFn(name, event) == event.item = 1

\* a wrong wrapper: the filterFn is asked only when there is no eventTypes
passesEither(opts, event) ==
  IF opts.typed THEN event.type \in opts.eventTypes
  ELSE opts.filterFn # "none" => filterFn(opts.filterFn, event)

\* whether the wrapper made with these options hands the event to its subscriber
passes(opts, event) ==
  /\ ~(opts.typed /\ event.type \notin opts.eventTypes)
  /\ ~(opts.filterFn # "none" /\ ~filterFn(opts.filterFn, event))

\* the subscribers the queue object's receivers hand the event to, in the order of
\* the queue's receivers
delivered(obj, wraps, event) ==
  LET ws == SelectSeq(obj.subscribers, LAMBDA w : passes(wraps[w.n].options, event))
  IN [k \in 1..Len(ws) |-> wraps[ws[k].n].subscriber]

\* the service and what it reaches: the manager's registry, the Queue objects, the
\* subscription sets and the wrappers made
Service(reg, objs, subs, wraps) ==
  [queues |-> reg, heap |-> objs, subscribers |-> subs, wrappers |-> wraps]
service == Service(queues, heap, subscribers, wrappers)

\* subscribeToQueue(queueName, subscriber, options)
subscribeToQueue(sv, queueName, subscriber, opts) ==
  LET queue == getQueue(sv.queues, queueName)
      queueSubscriber == Wrap(Len(sv.wrappers) + 1)
  IN IF queue = 0
     THEN [s |-> sv, ok |-> FALSE]
     ELSE [s |-> [sv EXCEPT !.heap[queue] = subscribe(@, queueSubscriber),
                            !.wrappers = Append(@, [subscriber |-> subscriber, options |-> opts]),
                            !.subscribers[queueName] =
                               @ \cup {[subscriber |-> queueSubscriber, options |-> opts]}],
           ok |-> TRUE]

\* unsubscribeFromQueue(queueName, subscriber): the entries whose subscriber is the
\* one given are taken off the queue (queue.unsubscribe) and out of the set
unsubscribeFromQueue(sv, queueName, subscriber) ==
  LET queue == getQueue(sv.queues, queueName)
      found == {entry \in sv.subscribers[queueName] : entry.subscriber = subscriber}
  IN IF queue = 0
     THEN [s |-> sv, ok |-> FALSE]
     ELSE [s |-> [sv EXCEPT !.heap[queue] =
                               [@ EXCEPT !.subscribers =
                                  SelectSeq(@, LAMBDA r : r \notin {e.subscriber : e \in found})],
                            !.subscribers[queueName] = @ \ found],
           ok |-> found # {}]

\* QueueManager.getQueueNames(): the names registered, in the registry's order
getQueueNames(reg) == [k \in 1..Len(reg) |-> reg[k].name]

RECURSIVE subscribeToEach(_, _, _, _)
subscribeToEach(sv, names, subscriber, opts) ==
  IF names = <<>> THEN sv
  ELSE subscribeToEach(subscribeToQueue(sv, Head(names), subscriber, opts).s,
                       Tail(names), subscriber, opts)

\* a wrong subscribeToAllQueues: only the first queue registered
subscribeToFirstQueue(sv, subscriber, opts) ==
  subscribeToEach(sv, IF sv.queues = <<>> THEN <<>> ELSE <<Head(getQueueNames(sv.queues))>>,
                  subscriber, opts)

\* subscribeToAllQueues(subscriber, options)
subscribeToAllQueues(sv, subscriber, opts) ==
  subscribeToEach(sv, getQueueNames(sv.queues), subscriber, opts)

\* a wrong markQueueAsComplete: true whatever the name
markQueueAsCompleteAnyName(sv, queueName) ==
  LET queue == getQueue(sv.queues, queueName)
  IN IF queue = 0
     THEN [s |-> sv, ok |-> TRUE]
     ELSE [s |-> [sv EXCEPT !.heap[queue] = markAsComplete(@)], ok |-> TRUE]

\* markQueueAsComplete(queueName)
markQueueAsComplete(sv, queueName) ==
  LET queue == getQueue(sv.queues, queueName)
  IN IF queue = 0
     THEN [s |-> sv, ok |-> FALSE]
     ELSE [s |-> [sv EXCEPT !.heap[queue] = markAsComplete(@)], ok |-> TRUE]

\* resetQueueComplete(queueName)
resetQueueComplete(sv, queueName) ==
  LET queue == getQueue(sv.queues, queueName)
  IN IF queue = 0
     THEN [s |-> sv, ok |-> FALSE]
     ELSE [s |-> [sv EXCEPT !.heap[queue] = resetComplete(@)], ok |-> TRUE]

\* the service call leaves the state sv
Becomes(sv) ==
  /\ heap' = sv.heap
  /\ subscribers' = sv.subscribers
  /\ wrappers' = sv.wrappers
  /\ UNCHANGED <<storageDir, queues, latest, saveAll, queueVars, storageVars>>

SubscribeToQueue(queueName, subscriber, opts) ==
  /\ Len(wrappers) < MaxWrappers
  /\ Becomes(subscribeToQueue(service, queueName, subscriber, opts).s)

UnsubscribeFromQueue(queueName, subscriber) ==
  Becomes(unsubscribeFromQueue(service, queueName, subscriber).s)

SubscribeToAllQueues(subscriber, opts) ==
  /\ Len(wrappers) + Len(queues) <= MaxWrappers
  /\ Becomes(subscribeToAllQueues(service, subscriber, opts))

MarkQueueAsComplete(queueName) ==
  Becomes(markQueueAsComplete(service, queueName).s)

ResetQueueComplete(queueName) ==
  Becomes(resetQueueComplete(service, queueName).s)

(***************************************************************************)
(* SpecEvents: a QueueManager without a storage directory and a            *)
(* notification service on it, with no subscriber.  Queues are created,    *)
(* filled and drained, marked complete and reset.                          *)
(***************************************************************************)
NextEvents ==
  \/ \E name \in QueueNames : CreateQueue(name)
  \/ \E i \in Objects : QueueEnqueue(i, "a")
  \/ \E i \in Objects : QueueDequeue(i)
  \/ \E i \in Objects, id \in 1..MaxAdds : QueueComplete(i, id)
  \/ \E name \in QueueNames : MarkQueueAsComplete(name)
  \/ \E name \in QueueNames : ResetQueueComplete(name)

SpecEvents == InitManager /\ [][NextEvents]_vars

(***************************************************************************)
(* SpecNotify: the same manager and service with subscribers.  The first   *)
(* subscriber subscribes for the itemAdded events of the first item, the   *)
(* second without options.                                                 *)
(***************************************************************************)
Subscriptions ==
  { [subscriber |-> Sub(1), options |-> FirstAdded],
    [subscriber |-> Sub(2), options |-> NoOptions] }

NextNotify ==
  \/ \E name \in QueueNames : CreateQueue(name)
  \/ \E i \in Objects : QueueEnqueue(i, "a")
  \/ \E i \in Objects : QueueDequeue(i)
  \/ \E i \in Objects, id \in 1..MaxAdds : QueueComplete(i, id)
  \/ \E name \in QueueNames, c \in Subscriptions :
        SubscribeToQueue(name, c.subscriber, c.options)
  \/ \E name \in QueueNames, s \in Subscribers : UnsubscribeFromQueue(name, s)
  \/ \E c \in Subscriptions : SubscribeToAllQueues(c.subscriber, c.options)

SpecNotify == InitManager /\ [][NextNotify]_vars

\* how many events of the type are among the events
Count(events, type) == Len(SelectSeq(events, LAMBDA ev : ev.type = type))

FindsNone(obj) == dequeue(StateOf(obj), ManagedOptions).out = <<>>

\* C26 -- once markAsComplete() was called on a queue and until resetComplete() is,
\* a dequeue() that finds no eligible item emits one queueComplete event carrying
\* the number of items in flight; while the queue is not marked, a dequeue that
\* finds none emits no event.
C26_QueueComplete ==
  \A i \in Objects :
     LET marked == markAsComplete(heap[i])
         inFlight == Cardinality(heap[i].processing)
     IN FindsNone(heap[i]) =>
          /\ dequeueEvents(heap[i]) =
               (IF heap[i].isComplete
                THEN <<Event("queueComplete", 0, inFlight)>> ELSE <<>>)
          /\ dequeueEvents(marked) = <<Event("queueComplete", 0, inFlight)>>
          /\ dequeueEvents(resetComplete(marked)) = <<>>

\* C26, its case: a queue marked complete with nothing to hand out and an item in
\* flight, beside a queue with nothing to hand out that is not marked
C26_Witness ==
  /\ \E i \in Objects :
        heap[i].isComplete /\ FindsNone(heap[i]) /\ heap[i].processing # {}
  /\ \E i \in Objects : ~heap[i].isComplete /\ FindsNone(heap[i])

\* the events the next enqueue, dequeue or complete on the queue object emits
Emits(obj) ==
  Range(enqueueEvents(obj, obj.nextId))
    \cup Range(dequeueEvents(obj))
    \cup UNION {Range(completeEvents(obj, id)) : id \in 1..MaxAdds}

\* how many times the subscriber is among the receivers
Times(receivers, s) == Len(SelectSeq(receivers, LAMBDA r : r = s))

\* the subscriptions of the queue object: the subscriber and the options of each
\* of its wrappers
SubscriptionsOn(obj, wraps) == [k \in 1..Len(obj.subscribers) |-> wraps[obj.subscribers[k].n]]

\* C27 -- of the events a queue emits, a subscription made through
\* subscribeToQueue receives exactly those whose type is in its eventTypes, when
\* it has one, and for which its filterFn is true, when it has one; a subscription
\* without options receives every event.  So a subscription with eventTypes
\* ['itemAdded'] does not receive the itemProcessed of a complete, and one
\* without options on the same queue does.
C27_Filtering ==
  \A i \in Objects : \A event \in Emits(heap[i]) : \A s \in Subscribers :
     LET subs == SubscriptionsOn(heap[i], wrappers)
         due == {k \in 1..Len(subs) :
                   /\ subs[k].subscriber = s
                   /\ subs[k].options.typed => event.type \in subs[k].options.eventTypes
                   /\ subs[k].options.filterFn # "none" => event.item = 1}
     IN /\ Times(delivered(heap[i], wrappers, event), s) = Cardinality(due)
        /\ passes(NoOptions, event)
        /\ passes(OnlyAdded, event) = (event.type = "itemAdded")

\* C27, its case: a queue with a subscription for ['itemAdded'] and one without
\* options, whose complete of an item in flight emits an itemProcessed that only
\* the second receives
C27_Witness ==
  \E i \in Objects : \E id \in heap[i].processing :
     LET subs == SubscriptionsOn(heap[i], wrappers)
     IN /\ \E k \in 1..Len(subs) :
              /\ subs[k].subscriber = Sub(1)
              /\ subs[k].options.eventTypes = {"itemAdded"}
        /\ \E k \in 1..Len(subs) :
              subs[k].subscriber = Sub(2) /\ subs[k].options = NoOptions
        /\ delivered(heap[i], wrappers, Event("itemProcessed", id, 0)) = <<Sub(2)>>
        /\ Event("itemProcessed", id, 0) \in Emits(heap[i])

\* C28 -- subscribeToQueue, markQueueAsComplete and resetQueueComplete with a name
\* that is not registered return false, register no subscription and change no
\* queue; with a registered name they return true.
C28_UnknownQueue ==
  \A name \in QueueNames :
     LET mark == markQueueAsComplete(service, name)
         reset == resetQueueComplete(service, name)
     IN /\ mark.ok = (name \in Created)
        /\ reset.ok = (name \in Created)
        /\ name \notin Created => mark.s = service /\ reset.s = service
        /\ \A s \in Subscribers, o \in OptionsGiven :
              LET sub == subscribeToQueue(service, name, s, o)
              IN /\ sub.ok = (name \in Created)
                 /\ name \notin Created => sub.s = service

\* C28, its case: a name that is not registered beside a registered queue that
\* markQueueAsComplete has marked
C28_Witness ==
  /\ \E name \in QueueNames : name \notin Created
  /\ \E name \in Created : heap[getQueue(queues, name)].isComplete

\* C29 -- once subscribeToQueue(q, s, ...) has returned true, unsubscribeFromQueue(q, s)
\* returns true, takes the wrapper made for s off the queue and out of the
\* service's subscription set, and s receives no event the queue emits
\* afterwards; for a subscriber that was never subscribed it returns false and
\* changes nothing.
C29_Unsubscribe ==
  \A name \in Created : \A s \in Subscribers :
     LET i == getQueue(queues, name)
         mine == {k \in 1..Len(wrappers) :
                    wrappers[k].subscriber = s /\ Wrap(k) \in Range(heap[i].subscribers)}
         u == unsubscribeFromQueue(service, name, s)
     IN IF mine # {}
        THEN /\ u.ok
             /\ \A k \in mine :
                   /\ Wrap(k) \notin Range(u.s.heap[i].subscribers)
                   /\ Wrap(k) \notin {entry.subscriber : entry \in u.s.subscribers[name]}
             /\ \A event \in Emits(u.s.heap[i]) :
                   Times(delivered(u.s.heap[i], u.s.wrappers, event), s) = 0
        ELSE ~u.ok /\ u.s = service

\* C30 -- subscribeToAllQueues(s) subscribes s to exactly the queues registered at
\* the time of the call: each of them gets one more subscription, that of s, and
\* hands s its events; a queue created after the call has no subscription, so s
\* receives none of its events.
C30_CurrentQueuesOnly ==
  \A sub \in Subscriptions :
     LET s == sub.subscriber
         o == sub.options
         after == subscribeToAllQueues(service, s, o)
     IN /\ Len(after.wrappers) = Len(wrappers) + Cardinality(Created)
        /\ \A name \in QueueNames :
              IF name \in Created
              THEN LET i == getQueue(queues, name)
                   IN /\ SubscriptionsOn(after.heap[i], after.wrappers) =
                           Append(SubscriptionsOn(heap[i], wrappers),
                                  [subscriber |-> s, options |-> o])
                      /\ \A event \in Emits(heap[i]) :
                            o = NoOptions =>
                               Times(delivered(after.heap[i], after.wrappers, event), s)
                                  = Times(delivered(heap[i], wrappers, event), s) + 1
              ELSE LET c == createQueue(M(after.queues, after.heap, storageDir), name)
                   IN /\ c.ok
                      /\ after.subscribers[name] = {}
                      /\ \A event \in Emits(c.m.heap[c.queue]) :
                            delivered(c.m.heap[c.queue], after.wrappers, event) = <<>>

\* C30, its case: a queue with a subscription and a queue created after that
\* subscription was made, which has none
C30_Witness ==
  \E i \in Objects, j \in Objects :
     /\ i < j
     /\ heap[i].subscribers # <<>>
     /\ heap[j].subscribers = <<>>
     /\ heap[j].enqueued > 0
     /\ \A name \in QueueNames : subscribers[name] # {} => getQueue(queues, name) = i

(***************************************************************************)
(* The attempt counter, the place of a retried item and processNext.       *)
(***************************************************************************)
\* C31 -- in every reachable state every item has 0 <= processingAttempts <=
\* retryLimit, its processingAttempts is the number of retry calls on it that
\* returned true (dequeue does not change it), and dequeue has handed it out at
\* most retryLimit + 1 times.
C31_Attempts ==
  \A i \in 1..Len(items) :
     LET item == items[i]
     IN /\ 0 <= item.processingAttempts
        /\ item.processingAttempts <= options.retryLimit
        /\ item.processingAttempts = retryCalls[item.id]
        /\ handed[item.id] <= options.retryLimit + 1

\* C31, its case: an item retried retryLimit times and handed out once more
C31_Witness ==
  \E i \in 1..Len(items) :
     /\ items[i].processingAttempts = options.retryLimit
     /\ items[i].id \in processing
     /\ handed[items[i].id] = options.retryLimit + 1
     /\ options.retryLimit > 1

\* C32 -- a retried item keeps its place in the order of selection: a retry that
\* returns true leaves the item's addedAt and priority as they were, and the
\* dequeue that follows returns that item unless it returns one of higher priority
\* or one enqueued before it; it never returns an item enqueued later with an equal
\* or lower priority.
C32_RetryKeepsPlace ==
  \A id \in processing :
     LET r == retry(q, options, id)
         d == dequeue(r.q, options)
     IN r.ok =>
          /\ Get(r.q.items, id).addedAt = Get(items, id).addedAt
          /\ Get(r.q.items, id).priority = Get(items, id).priority
          /\ Refs(r.q.items) = Refs(items)
          /\ Len(d.out) = 1
          /\ \/ d.out[1].id = id
             \/ d.out[1].priority > Get(items, id).priority
             \/ d.out[1].id < id

\* C32, its case: an item that was retried waits beside one enqueued after it with
\* the same priority, and the next dequeue returns the retried one
C32_Witness ==
  \E id \in Eligible, later \in Eligible :
     /\ Attempts(items, id) > 0
     /\ id < later
     /\ Get(items, later).priority = Get(items, id).priority
     /\ Refs(dequeue(q, options).out) = <<id>>

\* C33 -- on a queue with no registered processor processNext completes nothing:
\* a call that finds an item dequeues it, retries it and returns false, leaving
\* nothing in flight, so each call that selects an item adds one to its
\* processingAttempts and the call that selects it for the (retryLimit + 1)-th time
\* discards it.
C33_NoProcessor ==
  processors = <<>> =>
    LET d == dequeue(q, options)
        b == processNextBegin(q, options, processors)
    IN /\ b.ret = "false"
       /\ b.call = NoCall
       /\ processing = {}
       /\ b.q.processing = {}
       /\ \A i \in 1..Len(items) : handed[items[i].id] = items[i].processingAttempts
       /\ IF d.out = <<>> THEN b.q = q /\ items = <<>>
          ELSE LET id == d.out[1].id
               IN /\ \A j \in IdsOf(items) \ {id} :
                        j \in IdsOf(b.q.items) /\ Get(b.q.items, j) = Get(items, j)
                  /\ IF handed[id] < options.retryLimit
                     THEN /\ id \in IdsOf(b.q.items)
                          /\ Attempts(b.q.items, id) = Attempts(items, id) + 1
                     ELSE /\ handed[id] = options.retryLimit
                          /\ id \notin IdsOf(b.q.items)

\* C33, its case: no processor, and an item that retryLimit calls of processNext
\* have selected: the next call discards it
C33_Witness ==
  /\ processors = <<>>
  /\ options.retryLimit > 1
  /\ \E i \in 1..Len(items) :
        /\ handed[items[i].id] = options.retryLimit
        /\ Refs(dequeue(q, options).out) = <<items[i].id>>
        /\ items[i].id \notin IdsOf(processNextBegin(q, options, processors).q.items)

\* C34 -- processNext leaks no in-flight item: when an invocation ends, the item it
\* dequeued is not in the in-flight set, and it returns true only if that item is
\* gone from the mapping.
C34_NoLeak ==
  /\ LET b == processNextBegin(q, options, processors)
     IN b.call = NoCall =>
          /\ b.ret = "false"
          /\ IdsOf(dequeue(q, options).out) \cap b.q.processing = {}
  /\ \A c \in Slots : \A outcome \in Outcomes :
        calls[c] # NoCall =>
          LET r == processNextResume(q, options, processors, calls[c], outcome)
          IN r.call = NoCall =>
               /\ calls[c].item \notin r.q.processing
               /\ r.ret = "true" => calls[c].item \notin IdsOf(r.q.items)

\* the items the suspended processNext invocations hold
HeldBy(c) == calls[c].item
Busy == {c \in Slots : calls[c] # NoCall}

\* C35 -- when processNext invocations overlap, no item is with the processors of
\* two invocations at once and none is completed or retried twice for one
\* dequeue: each in-flight item is held by exactly one invocation, a new
\* invocation dequeues an item no invocation holds, and the complete or retry an
\* invocation ends with finds its item in flight.
C35_OneHolder ==
  /\ \A c, d \in Busy : c # d => HeldBy(c) # HeldBy(d)
  /\ processing = {HeldBy(c) : c \in Busy}
  /\ processing \subseteq IdsOf(items)
  /\ IdsOf(dequeue(q, options).out) \cap {HeldBy(c) : c \in Busy} = {}
  /\ \A c \in Busy : \A outcome \in Outcomes :
        LET r == processNextResume(q, options, processors, calls[c], outcome)
        IN r.call = NoCall =>
             /\ r.q.processing = processing \ {HeldBy(c)}
             /\ r.ret = "true" => complete(q, HeldBy(c)).ok
             /\ r.ret = "false" => Retried({HeldBy(c)}) = {HeldBy(c)}

\* C35, its case: two invocations are suspended on their processors at once
C35_Witness ==
  \E c, d \in Busy : c # d /\ HeldBy(c) \in processing /\ HeldBy(d) \in processing

(***************************************************************************)
(* Loading and saving while the queue is in use.                           *)
(***************************************************************************)
\* C36 -- with a storage directory, what was enqueued (and marked in flight) on the
\* queue createQueue returned before its first load has finished is still there
\* once the load finishes: the step in which the load ends takes no item out of
\* the mapping and no id out of the in-flight set.
C36_LoadKeepsState ==
  [][\A i \in 1..Len(heap) :
        heap[i].loading /\ ~heap'[i].loading =>
          /\ IdsOf(heap[i].items) \subseteq IdsOf(heap'[i].items)
          /\ heap[i].processing \subseteq heap'[i].processing]_vars

\* C37 -- several writes that autoSave started can be under way at once; in
\* whatever order they finish, once all have finished with no error the file
\* holds the snapshot of the latest change.  Stated for the mapping, which every
\* call that changes it saves: the file then lists the items the queue holds, so
\* that no item that was completed is in it.
C37_LatestSnapshotWins ==
  (storageAdapter /\ nextId > 1 /\ writes = <<>> /\ ~unhandled) =>
     /\ HasShape(file)
     /\ file.items = save(q).items

(***************************************************************************)
(* The queue after a restart.                                              *)
(***************************************************************************)
\* the item id of the queue nq is counted by size and listed by browse, and
\* none of dequeue, peek, dequeueMany and processNext hands it out or changes it
HeldBack(nq, id) ==
  /\ id \in nq.processing
  /\ size(nq) >= 1
  /\ id \in Range(Refs(browse(nq, options, size(nq))))
  /\ id \notin IdsOf(dequeue(nq, options).out)
  /\ id \notin IdsOf(peek(nq, options).out)
  /\ id \notin IdsOf(dequeueMany(nq, options, size(nq)).out)
  /\ LET b == processNextBegin(nq, options, processors)
     IN /\ b.call # NoCall => b.call.item # id
        /\ id \in b.q.processing
        /\ id \in IdsOf(b.q.items)
        /\ Get(b.q.items, id) = Get(nq.items, id)

\* the item id of the queue nq is handed out again once retry(id) returned true
Released(nq, id) ==
  LET r == retry(nq, options, id)
  IN r.ok => /\ id \notin r.q.processing
             /\ id \in IdsOf(dequeueMany(r.q, options, size(r.q)).out)

\* C38 -- the items the snapshot lists as in flight are in flight after
\* loadFromStorage: they count in size() and are listed by browse(), and dequeue,
\* peek and processNext do not return them, however often they are called, until
\* retry(id) is called with their id.  Stated of what load makes of the file, and
\* of the queue at every moment after the load for the ids that are in flight
\* though this run never handed them out.
C38_RestoredInFlight ==
  /\ (HasShape(file) /\ load(file).ok) =>
        \A id \in Range(file.processing) \cap IdsOf(load(file).items) :
           /\ HeldBack(Q(load(file).items, load(file).processing), id)
           /\ Released(Q(load(file).items, load(file).processing), id)
  /\ \A id \in IdsOf(items) \cap processing :
        handed[id] = 0 => HeldBack(q, id) /\ Released(q, id)

\* C38, its case: the load restored item 1 as in flight, and a dequeue after it
\* handed out another item while item 1 stayed where it was
C38_Witness ==
  /\ 1 \in processing /\ handed[1] = 0
  /\ \E j \in IdsOf(items) : j # 1 /\ handed[j] > 0

(***************************************************************************)
(* SpecDrain: a queue consumed by a driver that awaits each processNext()  *)
(* before it calls the next, so that one invocation at most is suspended.  *)
(* The driver goes on calling processNext for ever, and every processor    *)
(* call settles (resolves true or false, or rejects): both are weakly      *)
(* fair.  Enqueue and registerProcessor are not: they happen finitely      *)
(* often, and after the last of them the queue is left to the driver.      *)
(* As in SpecProc there is a processor to go on to after a false.          *)
(***************************************************************************)
AwaitedProcessNext == ProcessNextUpTo(1)

ProcessorCallEnds == \E c \in Slots, outcome \in Outcomes : ProcessorSettles(c, outcome)

NextDrain ==
  \/ \E data \in Data : Enqueue(data, 0, clock)
  \/ RegisterProcessorUpTo(MaxProcessors + 1)
  \/ AwaitedProcessNext
  \/ ProcessorCallEnds

SpecDrain == /\ InitAll
             /\ [][NextDrain]_vars
             /\ WF_vars(AwaitedProcessNext)
             /\ WF_vars(ProcessorCallEnds)

\* C39 -- drain: from any moment at which the queue holds items, none of them in
\* flight, and has a processor, the driver's processNext calls lead to size() = 0
\* (every item is completed, or discarded at the retry limit), and no item is
\* handed to more than retryLimit + 1 processNext calls.
C39_Drains ==
  /\ [](\A id \in Ids : handed[id] <= options.retryLimit + 1)
  /\ (size(q) > 0 /\ processing = {} /\ Len(processors) >= 1) ~> (size(q) = 0)

\* C39, its case: an item is in its last processNext call, the one numbered
\* retryLimit + 1, suspended on a processor
C39_Witness ==
  \E c \in Busy : /\ handed[HeldBy(c)] = options.retryLimit + 1
                   /\ HeldBy(c) \in processing

(***************************************************************************)
(* SpecZero: a queue constructed with maxSize 0 and retryLimit 0, driven   *)
(* through enqueue, dequeue, complete and retry.                           *)
(***************************************************************************)
\* new Queue({maxSize: 0, retryLimit: 0, priorityEnabled})
InitZero == /\ \E p \in BOOLEAN : ConstructedWith(0, 0, p)
            /\ NoAdapter
            /\ NoManager

NextZero ==
  \/ \E data \in Data, priority \in 0..MaxPriority : Enqueue(data, priority, clock)
  \/ Dequeue
  \/ \E id \in CallIds : Complete(id)
  \/ \E id \in CallIds : Retry(id)

SpecZero == InitZero /\ [][NextZero]_vars

\* C40 -- the limits the queue was constructed with are honoured when they are 0:
\* with maxSize 0 every enqueue is rejected, so the mapping stays empty, and with
\* retryLimit 0 retry(id) on an in-flight item returns false and discards it.
C40_ZeroLimits ==
  /\ size(q) = 0
  /\ \A id \in processing \cap IdsOf(items) :
        /\ ~retry(q, options, id).ok
        /\ id \notin IdsOf(retry(q, options, id).q.items)

====
